---------------------------- MODULE Spec2Model ----------------------------
(***************************************************************************)
(* A model of the goldfish graphics buffer allocator service               *)
(* (gralloc/allocator.cpp) and of the per-process mapper library           *)
(* (gralloc/mapper.cpp).                                                   *)
(*                                                                         *)
(* A usage mask (uint64_t) is the set of the positions of its set bits, so *)
(* that the code's bitwise AND is set intersection and "!= 0" is "# {}".   *)
(***************************************************************************)
EXTENDS Integers, Sequences, FiniteSets, TLC

(***************************************************************************)
(* Bounds of the model.                                                    *)
(***************************************************************************)
MaxWidth == 2
MaxHeight == 1
MaxCount == 2
MaxBufferId == 2
NumThreads == 2
MaxHandles == 2

Threads == 1..NumThreads

\* the processes that load the mapper library
Procs == {"app", "composer"}

\* the addresses native_handle_clone returns in one process; they are
\* interchangeable, and a clone is placed at the lowest one not in use
Addrs == 1..MaxHandles

\* the coordinates of the access regions passed to lock
Coords == -1..(MaxWidth + 1)

(***************************************************************************)
(* BufferUsage bits, as positions.                                         *)
(***************************************************************************)
CPU_READ_MASK == {0, 1, 2, 3}
CPU_WRITE_MASK == {4, 5, 6, 7}
GPU_TEXTURE == {8}
GPU_RENDER_TARGET == {9}
COMPOSER_OVERLAY == {11}
COMPOSER_CLIENT_TARGET == {12}
GPU_DATA_BUFFER == {24}

kReservedUsage == {10, 13, 19, 21}

(***************************************************************************)
(* Pixel formats: the fourteen of allocate2's switch and two the switch    *)
(* does not know.                                                          *)
(***************************************************************************)
GpuFormats ==
    {"RGBA_8888", "RGBX_8888", "BGRA_8888", "RGB_565", "RGBA_FP16",
     "RGBA_1010102", "YV12", "YCBCR_420_888", "YCBCR_P010"}

CpuOnlyFormats == {"RGB_888", "RAW16", "Y16", "BLOB", "YCRCB_420_SP"}

UnknownFormats == {"IMPLEMENTATION_DEFINED", "R_8"}

PixelFormats == GpuFormats \cup CpuOnlyFormats \cup UnknownFormats

kCbExternalMetadataSize == 304
kMagicValue == "0x247439A87E42E932"

NoGl == "-1"

(***************************************************************************)
(* uint32_t arithmetic.  TLC's integers are 32-bit signed, so the word is  *)
(* kept at 24 bits and every quantity of the code keeps its place in it:   *)
(* a uint32_t wraps at 2^24 as the code's wraps at 2^32, and the widths    *)
(* and heights allocate2 accepts, positive int32_t values in the code, go  *)
(* up to 2^23 - 1.                                                         *)
(***************************************************************************)
UInt32Range == 2^24

ToUInt32(x) == x % UInt32Range

align(value, alignmentP2) ==
    \* (value + alignmentP2 - 1) & ~(alignmentP2 - 1), alignmentP2 a power of 2
    LET s == value + alignmentP2 - 1
    IN  s - (s % alignmentP2)

BadNeedGpuBuffer(usage) ==
    usage \cap (GPU_TEXTURE \cup GPU_RENDER_TARGET \cup COMPOSER_OVERLAY
                \cup COMPOSER_CLIENT_TARGET) # {}

NeedGpuBufferTextureOnly(usage) == usage \cap GPU_TEXTURE # {}

needGpuBuffer(usage) ==
    usage \cap (GPU_TEXTURE \cup GPU_RENDER_TARGET \cup COMPOSER_OVERLAY
                \cup COMPOSER_CLIENT_TARGET \cup GPU_DATA_BUFFER) # {}

BadNeedCpuBuffer(usage) == TRUE

needCpuBuffer(usage) ==
    usage \cap (CPU_READ_MASK \cup CPU_WRITE_MASK) # {}

makePlaneLayoutComponent(type, offsetInBits, sizeInBits) ==
    [type |-> type, offsetInBits |-> offsetInBits, sizeInBits |-> sizeInBits]

(***************************************************************************)
(* initPlaneLayout fills one plane and returns the offset after it.        *)
(***************************************************************************)
BadInitPlaneLayout(width, height, offsetInBytes, alignment, sampleSizeInBytes, subsamplingShift, componentsBase, componentsSize) ==
    LET strideInBytes == ToUInt32(align(ToUInt32(width * sampleSizeInBytes), alignment))
        totalSizeInBytes == ToUInt32(strideInBytes * height)
    IN  [plane |-> [offsetInBytes |-> ToUInt32(offsetInBytes),
                    strideInBytes |-> strideInBytes,
                    totalSizeInBytes |-> totalSizeInBytes,
                    sampleIncrementInBytes |-> sampleSizeInBytes,
                    horizontalSubsamplingShift |-> subsamplingShift,
                    verticalSubsamplingShift |-> subsamplingShift,
                    componentsBase |-> componentsBase,
                    componentsSize |-> componentsSize],
         next |-> offsetInBytes + align(totalSizeInBytes, 16)]

initPlaneLayout(width, height, offsetInBytes, alignment, sampleSizeInBytes, subsamplingShift, componentsBase, componentsSize) ==
    LET strideInBytes == ToUInt32(align(ToUInt32(width * sampleSizeInBytes), alignment))
        totalSizeInBytes == ToUInt32(strideInBytes * height)
    IN  [plane |-> [offsetInBytes |-> ToUInt32(offsetInBytes),
                    strideInBytes |-> strideInBytes,
                    totalSizeInBytes |-> totalSizeInBytes,
                    sampleIncrementInBytes |-> sampleSizeInBytes,
                    horizontalSubsamplingShift |-> subsamplingShift,
                    verticalSubsamplingShift |-> subsamplingShift,
                    componentsBase |-> componentsBase,
                    componentsSize |-> componentsSize],
         next |-> offsetInBytes + totalSizeInBytes]

(***************************************************************************)
(* The format table of allocate2's switch: per plane <<alignment,          *)
(* sampleSizeInBytes, subsamplingShift, componentsBase, componentsSize>>,  *)
(* the components in planeComponent[] order, and the host formats.         *)
(***************************************************************************)
FormatEntry(planes, comps, drm, glFormat, glType, fwk) ==
    [planes |-> planes, comps |-> comps, drmFormat |-> drm,
     glFormat |-> glFormat, glType |-> glType, emuFwkFormat |-> fwk]

FormatTable(format) ==
    CASE format = "RGBA_8888" ->
            FormatEntry(<< <<1, 4, 0, 0, 4>> >>,
                        << <<"R", 0, 8>>, <<"G", 8, 8>>, <<"B", 16, 8>>, <<"A", 24, 8>> >>,
                        "DRM_FORMAT_ABGR8888", "GL_RGBA", "GL_UNSIGNED_BYTE", "GL_COMPATIBLE")
      [] format = "RGBX_8888" ->
            FormatEntry(<< <<1, 4, 0, 0, 3>> >>,
                        << <<"R", 0, 8>>, <<"G", 8, 8>>, <<"B", 16, 8>> >>,
                        "DRM_FORMAT_XBGR8888", "GL_RGBA", "GL_UNSIGNED_BYTE", "GL_COMPATIBLE")
      [] format = "BGRA_8888" ->
            FormatEntry(<< <<1, 4, 0, 0, 4>> >>,
                        << <<"B", 0, 8>>, <<"G", 8, 8>>, <<"R", 16, 8>>, <<"A", 24, 8>> >>,
                        "DRM_FORMAT_ARGB8888", "GL_RGBA", "GL_UNSIGNED_BYTE", "GL_COMPATIBLE")
      [] format = "RGB_888" ->
            FormatEntry(<< <<1, 3, 0, 0, 3>> >>,
                        << <<"R", 0, 8>>, <<"G", 8, 8>>, <<"B", 16, 8>> >>,
                        "DRM_FORMAT_BGR888", NoGl, NoGl, "GL_COMPATIBLE")
      [] format = "RGB_565" ->
            FormatEntry(<< <<1, 2, 0, 0, 3>> >>,
                        << <<"R", 0, 5>>, <<"G", 5, 6>>, <<"B", 11, 5>> >>,
                        "DRM_FORMAT_BGR565", "GL_RGB565", "GL_UNSIGNED_SHORT_5_6_5", "GL_COMPATIBLE")
      [] format = "RGBA_FP16" ->
            FormatEntry(<< <<1, 8, 0, 0, 4>> >>,
                        << <<"R", 0, 16>>, <<"G", 16, 16>>, <<"B", 32, 16>>, <<"A", 48, 16>> >>,
                        "DRM_FORMAT_ABGR16161616F", "GL_RGBA16F", "GL_HALF_FLOAT", "GL_COMPATIBLE")
      [] format = "RGBA_1010102" ->
            FormatEntry(<< <<1, 4, 0, 0, 4>> >>,
                        << <<"R", 0, 10>>, <<"G", 10, 10>>, <<"B", 20, 10>>, <<"A", 30, 2>> >>,
                        "DRM_FORMAT_ABGR2101010", "GL_RGB10_A2",
                        "GL_UNSIGNED_INT_2_10_10_10_REV", "GL_COMPATIBLE")
      [] format = "RAW16" ->
            FormatEntry(<< <<16, 2, 0, 0, 1>> >>,
                        << <<"RAW", 0, 16>> >>,
                        "DRM_FORMAT_R16", NoGl, NoGl, "GL_COMPATIBLE")
      [] format = "Y16" ->
            FormatEntry(<< <<16, 2, 0, 0, 1>> >>,
                        << <<"Y", 0, 16>> >>,
                        "DRM_FORMAT_R16", NoGl, NoGl, "GL_COMPATIBLE")
      [] format = "BLOB" ->
            FormatEntry(<< <<1, 1, 0, 0, 1>> >>,
                        << <<"RAW", 0, 8>> >>,
                        "DRM_FORMAT_INVALID", NoGl, NoGl, "GL_COMPATIBLE")
      [] format = "YCRCB_420_SP" ->
            FormatEntry(<< <<1, 1, 0, 0, 1>>, <<1, 2, 1, 1, 2>> >>,
                        << <<"Y", 0, 8>>, <<"CB", 8, 8>>, <<"CR", 0, 8>> >>,
                        "DRM_FORMAT_YVU420", NoGl, NoGl, "GL_COMPATIBLE")
      [] format = "YV12" ->
            FormatEntry(<< <<16, 1, 0, 0, 1>>, <<16, 1, 1, 1, 1>>, <<16, 1, 1, 2, 1>> >>,
                        << <<"Y", 0, 8>>, <<"CR", 0, 8>>, <<"CB", 0, 8>> >>,
                        "DRM_FORMAT_YVU420", "GL_RGBA", "GL_UNSIGNED_BYTE", "YV12")
      [] format = "YCBCR_420_888" ->
            FormatEntry(<< <<1, 1, 0, 0, 1>>, <<1, 1, 1, 1, 1>>, <<1, 1, 1, 2, 1>> >>,
                        << <<"Y", 0, 8>>, <<"CB", 0, 8>>, <<"CR", 0, 8>> >>,
                        "DRM_FORMAT_YUV420", "GL_RGBA", "GL_UNSIGNED_BYTE", "YUV_420_888")
      [] format = "YCBCR_P010" ->
            FormatEntry(<< <<1, 2, 0, 0, 1>>, <<1, 4, 1, 1, 2>> >>,
                        << <<"Y", 6, 10>>, <<"CB", 6, 10>>, <<"CR", 22, 10>> >>,
                        "DRM_FORMAT_YUV420_10BIT", "GL_RGBA", "GL_UNSIGNED_BYTE", "GL_COMPATIBLE")


(***************************************************************************)
(* The planes of a format for a width and a height, in offset order, and   *)
(* the offset after the last one.  A plane with subsampling shift 1 is     *)
(* laid out for width / 2 and height / 2.                                  *)
(***************************************************************************)
RECURSIVE LayoutPlanes(_, _, _, _, _)
LayoutPlanes(specs, k, width, height, acc) ==
    IF k > Len(specs) THEN acc
    ELSE LET s == specs[k]
             w == IF s[3] = 1 THEN width \div 2 ELSE width
             h == IF s[3] = 1 THEN height \div 2 ELSE height
             r == initPlaneLayout(w, h, acc.next, s[1], s[2], s[3], s[4], s[5])
         IN  LayoutPlanes(specs, k + 1, width, height,
                          [planes |-> Append(acc.planes, r.plane), next |-> r.next])

Uninitialized == [uninitialized |-> TRUE]

PlaneComponents(format) ==
    LET c == FormatTable(format).comps
    IN  [k \in 1..4 |-> IF k <= Len(c)
                        THEN makePlaneLayoutComponent(c[k][1], c[k][2], c[k][3])
                        ELSE Uninitialized]

(***************************************************************************)
(* The descriptor checks of allocate2, in the order of the code.           *)
(***************************************************************************)
BadValidateUsage(usage) == usage \cap {10, 13, 19} = {}

validateUsage(usage) == usage \cap kReservedUsage = {}

allocate2Check(desc, count) ==
    IF count <= 0 THEN "BAD_DESCRIPTOR"
    ELSE IF desc.width <= 0 THEN "BAD_DESCRIPTOR"
    ELSE IF desc.height <= 0 THEN "BAD_DESCRIPTOR"
    ELSE IF ~validateUsage(desc.usage) THEN "BAD_DESCRIPTOR"
    ELSE IF desc.layerCount # 1 THEN "BAD_DESCRIPTOR"
    ELSE IF desc.reservedSize < 0 THEN "BAD_DESCRIPTOR"
    ELSE IF desc.additionalOptions # 0 THEN "BAD_DESCRIPTOR"
    ELSE IF desc.format \in {"RGB_888", "RAW16", "Y16", "BLOB", "YCRCB_420_SP"}
            /\ needGpuBuffer(desc.usage) THEN "UNSUPPORTED"
    ELSE IF desc.format \notin
              {"RGBA_8888", "RGBX_8888", "BGRA_8888", "RGB_888", "RGB_565",
               "RGBA_FP16", "RGBA_1010102", "RAW16", "Y16", "BLOB",
               "YCRCB_420_SP", "YV12", "YCBCR_420_888", "YCBCR_P010"}
         THEN "UNSUPPORTED"
    ELSE "OK"

BadIsSupportedImpl(desc) ==
    IF desc.width <= 0 THEN FALSE
    ELSE IF desc.height <= 0 THEN FALSE
    ELSE IF desc.layerCount # 1 THEN FALSE
    ELSE IF desc.reservedSize < 0 THEN FALSE
    ELSE IF desc.additionalOptions # 0 THEN FALSE
    ELSE IF desc.format \in
              {"RGBA_8888", "RGBX_8888", "BGRA_8888", "RGB_565", "RGBA_FP16",
               "RGBA_1010102", "YV12", "YCBCR_420_888", "YCBCR_P010",
               "RGB_888", "YCRCB_420_SP", "RAW16", "Y16", "BLOB"}
         THEN validateUsage(desc.usage)
    ELSE FALSE

isSupportedImpl(desc) ==
    IF desc.width <= 0 THEN FALSE
    ELSE IF desc.height <= 0 THEN FALSE
    ELSE IF desc.layerCount # 1 THEN FALSE
    ELSE IF desc.reservedSize < 0 THEN FALSE
    ELSE IF desc.additionalOptions # 0 THEN FALSE
    ELSE IF desc.format \in
              {"RGBA_8888", "RGBX_8888", "BGRA_8888", "RGB_565", "RGBA_FP16",
               "RGBA_1010102", "YV12", "YCBCR_420_888", "YCBCR_P010"}
         THEN validateUsage(desc.usage)
    ELSE IF desc.format \in {"RGB_888", "YCRCB_420_SP", "RAW16", "Y16", "BLOB"}
         THEN validateUsage(desc.usage) /\ ~needGpuBuffer(desc.usage)
    ELSE FALSE

(***************************************************************************)
(* The AllocationRequest allocate2 builds from an accepted descriptor.     *)
(* plane[] and planeComponent[] have no initializer: the entries the       *)
(* format does not set are Uninitialized.                                  *)
(***************************************************************************)
AllocationRequest(desc) ==
    LET e == FormatTable(desc.format)
        l == LayoutPlanes(e.planes, 1, desc.width, desc.height,
                          [planes |-> <<>>, next |-> 0])
        n == Len(e.planes)
        cpu == needCpuBuffer(desc.usage)
        gpu == needGpuBuffer(desc.usage)
    IN  [plane |-> [k \in 1..3 |-> IF k <= n THEN l.planes[k] ELSE Uninitialized],
         planeComponent |-> PlaneComponents(desc.format),
         imageSizeInBytes |-> IF cpu THEN l.next ELSE 0,
         reservedRegionSize |-> desc.reservedSize,
         usage |-> desc.usage,
         width |-> desc.width,
         height |-> desc.height,
         stride0 |-> IF cpu /\ n = 1
                     THEN l.planes[1].strideInBytes \div l.planes[1].sampleIncrementInBytes
                     ELSE 0,
         drmFormat |-> e.drmFormat,
         format |-> desc.format,
         glFormat |-> IF gpu THEN e.glFormat ELSE NoGl,
         glType |-> IF gpu THEN e.glType ELSE NoGl,
         rcAllocFormat |-> IF gpu
                           THEN (IF desc.format = "RGBX_8888" THEN "GL_RGB" ELSE e.glFormat)
                           ELSE NoGl,
         emuFwkFormat |-> e.emuFwkFormat,
         planeSize |-> IF cpu THEN n ELSE 0]

(***************************************************************************)
(* File descriptors and host objects of the buffer with a given bufferID.  *)
(* The numbers the kernel and the host choose are immaterial; each open    *)
(* and each host object gets one of its own.                               *)
(***************************************************************************)
BufferFdOf(bufferID) == 2 * bufferID
RefcountFdOf(bufferID) == 2 * bufferID + 1
HostHandleOf(bufferID) == bufferID
HostOffsetOf(bufferID) == 4096 * bufferID
GuestPtrOf(bufferID) == 4096 * bufferID

ZeroSmpte2086 ==
    [primaryRed |-> <<0, 0>>, primaryGreen |-> <<0, 0>>, primaryBlue |-> <<0, 0>>,
     whitePoint |-> <<0, 0>>, maxLuminance |-> 0, minLuminance |-> 0]

ZeroCta861_3 == [maxContentLightLevel |-> 0, maxFrameAverageLightLevel |-> 0]

ZeroPlaneLayout ==
    [offsetInBytes |-> 0, strideInBytes |-> 0, totalSizeInBytes |-> 0,
     sampleIncrementInBytes |-> 0, horizontalSubsamplingShift |-> 0,
     verticalSubsamplingShift |-> 0, componentsBase |-> 0, componentsSize |-> 0]

(***************************************************************************)
(* allocateImpl when every host step succeeds: the X record written into   *)
(* the region and the cb_handle_t made for it.                             *)
(***************************************************************************)
ExternalMetadata(req, bufferID) ==
    [magic |-> kMagicValue,
     bufferID |-> bufferID,
     name |-> "name",
     planeLayout |-> IF req.planeSize # 0 THEN req.plane
                     ELSE [k \in 1..3 |-> ZeroPlaneLayout],
     planeLayoutComponent |-> IF req.planeSize # 0 THEN req.planeComponent
                              ELSE [k \in 1..4 |-> makePlaneLayoutComponent("ZERO", 0, 0)],
     smpte2086 |-> ZeroSmpte2086,
     cta861_3 |-> ZeroCta861_3,
     width |-> req.width,
     height |-> req.height,
     glFormat |-> req.glFormat,
     glType |-> req.glType,
     reservedRegionSize |-> ToUInt32(req.reservedRegionSize),
     dataspace |-> 0,
     blendMode |-> 0,
     planeLayoutSize |-> req.planeSize,
     has_smpte2086 |-> FALSE,
     has_cta861_3 |-> FALSE]

BadAllocateImpl(req, bufferID) ==
    LET totalAllocationSize ==
            req.imageSizeInBytes + kCbExternalMetadataSize + req.reservedRegionSize
        gpu == needGpuBuffer(req.usage)
    IN  [bufferFd |-> BufferFdOf(bufferID),
         hostHandleRefcountFd |-> IF gpu THEN RefcountFdOf(bufferID) ELSE -1,
         hostHandle |-> IF gpu THEN HostHandleOf(bufferID) ELSE 0,
         usage |-> req.usage,
         format |-> req.format,
         drmformat |-> req.drmFormat,
         stride |-> req.stride0,
         bufferSize |-> req.imageSizeInBytes,
         bufferPtr |-> GuestPtrOf(bufferID),
         mmapedSize |-> totalAllocationSize,
         mmapedOffset |-> HostOffsetOf(bufferID),
         externalMetadataOffset |-> req.imageSizeInBytes,
         lockedUsage |-> {},
         metadata |-> ExternalMetadata(req, bufferID)]

allocateImpl(req, bufferID) ==
    LET imageSizeInBytesAligned == align(req.imageSizeInBytes, 16)
        totalAllocationSize ==
            imageSizeInBytesAligned + kCbExternalMetadataSize + req.reservedRegionSize
        gpu == needGpuBuffer(req.usage)
    IN  [bufferFd |-> BufferFdOf(bufferID),
         hostHandleRefcountFd |-> IF gpu THEN RefcountFdOf(bufferID) ELSE -1,
         hostHandle |-> IF gpu THEN HostHandleOf(bufferID) ELSE 0,
         usage |-> req.usage,
         format |-> req.format,
         drmformat |-> req.drmFormat,
         stride |-> req.stride0,
         bufferSize |-> req.imageSizeInBytes,
         bufferPtr |-> GuestPtrOf(bufferID),
         mmapedSize |-> totalAllocationSize,
         mmapedOffset |-> HostOffsetOf(bufferID),
         externalMetadataOffset |-> imageSizeInBytesAligned,
         lockedUsage |-> {},
         metadata |-> ExternalMetadata(req, bufferID)]


(***************************************************************************)
(* unallocate(cb): the fds it closes and the mappings it removes.          *)
(***************************************************************************)
unallocate(cb) ==
    [closed |-> (IF cb.hostHandleRefcountFd >= 0 THEN {cb.hostHandleRefcountFd} ELSE {})
                \cup (IF cb.bufferFd >= 0 THEN {cb.bufferFd} ELSE {}),
     unmapped |-> IF cb.bufferFd >= 0 /\ cb.mmapedSize > 0 THEN {cb.bufferPtr} ELSE {}]

(***************************************************************************)
(* The indices (from 0, as in the code) the rollback loop of allocate2     *)
(* unallocates when the allocation at index i failed:                      *)
(* for (--i; i > 0; --i).                                                  *)
(***************************************************************************)
RollbackIndices(i) == {j \in 0..(i - 1) : j > 0}

(***************************************************************************)
(* The state.                                                              *)
(*   mBufferIdGenerator  GoldfishAllocator::mBufferIdGenerator             *)
(*   session             the binder thread inside a HostConnectionSession  *)
(*                       of the allocator's connection, 0 when none        *)
(*   thread              per binder thread, its place in allocate2 and the *)
(*                       locals i, the value of mBufferIdGenerator it      *)
(*                       loaded, cbs                                       *)
(*   call                per binder thread, its last call and what it      *)
(*                       returned                                          *)
(*   openFds, mapped     fds open and regions mapped in the allocator      *)
(*                       process                                           *)
(*   hostColorBuffers    the color buffers alive at the host               *)
(*   delivered           bufferIDs whose fds were dup'ed into a result     *)
(*   allocLog            the bufferIDs of the buffers allocated, in order  *)
(*   buffers             the buffers handed to the mapper's clients        *)
(*   mImportedBuffers    per process, GoldfishMapper::mImportedBuffers     *)
(*   handles             per process and handle, the imported cb_handle_t  *)
(*   lastOp              the last mapper call, what it returned and the    *)
(*                       host calls it issued                              *)
(*   mthread             per thread of a mapper client, its place in the   *)
(*                       mapper call it is making                          *)
(*   hostConn            the thread inside a HostConnectionSession of the  *)
(*                       mapper's connection, 0 when none                  *)
(*   guestMem            per buffer, the bytes of its shared memory        *)
(*   hostMem             per buffer, the bytes of its host color buffer    *)
(***************************************************************************)
VARIABLES mBufferIdGenerator, session, thread, call, openFds, mapped,
          hostColorBuffers, delivered, allocLog,
          buffers, mImportedBuffers, handles, lastOp,
          mthread, hostConn, guestMem, hostMem

allocVars == <<mBufferIdGenerator, session, thread, call, openFds, mapped,
               hostColorBuffers, delivered, allocLog>>

mapperVars == <<buffers, mImportedBuffers, handles, lastOp>>

memVars == <<mthread, hostConn, guestMem, hostMem>>

vars == <<mBufferIdGenerator, session, thread, call, openFds, mapped,
          hostColorBuffers, delivered, allocLog,
          buffers, mImportedBuffers, handles, lastOp,
          mthread, hostConn, guestMem, hostMem>>

IdleThread == [pc |-> "idle", i |-> 0, id |-> 0, cbs |-> <<>>]

IdleCall ==
    [pc |-> "idle", op |-> "none", h |-> [kind |-> "null", ref |-> 0], usage |-> {},
     next |-> "none", hostCalls |-> <<>>]

NoCall == [op |-> "none", desc |-> <<>>, count |-> 0, status |-> "NONE",
           stride |-> 0, buffers |-> <<>>, allocated |-> {}]

(***************************************************************************)
(* The descriptors and counts the clients pass.                            *)
(***************************************************************************)
ExtraUsageBits == {5, 9, 10, 11, 12, 13, 15, 19, 21, 24}

UsageInputs ==
    {c \cup e : c \in {{}, {1}}, e \in {{}} \cup {{b} : b \in ExtraUsageBits}}

Descriptor(width, height, format, layerCount, usage, reservedSize, additionalOptions) ==
    [width |-> width, height |-> height, format |-> format, layerCount |-> layerCount,
     usage |-> usage, reservedSize |-> reservedSize,
     additionalOptions |-> additionalOptions]

\* every format, with CPU usage, with CPU and GPU usage, with GPU usage alone
FormatSweep ==
    {Descriptor(MaxWidth, MaxHeight, f, 1, u, 0, 0) :
        f \in PixelFormats, u \in {{1, 5}, {1, 5, 8}, {8}}}

\* every usage bit the code looks at, alone and with a CPU bit
UsageSweep ==
    {Descriptor(1, 1, f, 1, u, 0, 0) : f \in {"RGBA_8888", "RGB_888"}, u \in UsageInputs}

\* every CPU-only format with every GPU and composer bit
GpuBitSweep ==
    {Descriptor(1, 1, f, 1, {1, b}, 0, 0) :
        f \in CpuOnlyFormats, b \in {8, 9, 11, 12, 15, 24}}

\* the scalar fields, valid and not
FieldSweep ==
    [width : {-1, 0, 1}, height : {0, 1}, format : {"RGBA_8888"},
     layerCount : {1, 2}, usage : {{1, 5}}, reservedSize : {-1, 0},
     additionalOptions : {0, 1}]
    \cup
    {Descriptor(1, -1, "RGBA_8888", 1, {1, 5}, 0, 0),
     Descriptor(1, 1, "RGBA_8888", 0, {1, 5}, 0, 0),
     Descriptor(1, 1, "RGBA_8888", 1, {1, 5}, 16, 0),
     Descriptor(1, 1, "R_8", 2, {1, 5}, 0, 0),
     Descriptor(1, 1, "R_8", 1, {1, 10}, 0, 0),
     Descriptor(1, 1, "BLOB", 1, {1, 8, 10}, 0, 0)}

DescriptorInputs == FormatSweep \cup UsageSweep \cup GpuBitSweep \cup FieldSweep

BatchDescriptors ==
    {Descriptor(2, 1, f, 1, u, 0, 0) :
        f \in {"RGBA_8888", "BLOB"}, u \in {{1, 5}, {1, 5, 8}, {1, 10}}}

CountInputs == -1..MaxCount

AllocationOutcomes(req) ==
    {"ok", "hostMalloc"}
    \cup (IF needGpuBuffer(req.usage)
          THEN {"qemu_pipe_open", "rcCreateColorBufferDMA", "qemu_pipe_write"}
          ELSE {})

(***************************************************************************)
(* The host keeps a color buffer while a refcount fd for it is open: in    *)
(* the allocator, in a result a client holds, or in a handle a client      *)
(* imported.                                                               *)
(***************************************************************************)
LiveColorBuffers(hcb, fds, deliv) ==
    {h \in hcb : \/ RefcountFdOf(h) \in fds
                 \/ h \in deliv
                 \/ \E p \in Procs, a \in Addrs :
                        /\ handles[p][a].state \in {"imported", "erased"}
                        /\ handles[p][a].buf = h}

(***************************************************************************)
(* allocate2, lines 150-460: the descriptor checks.  A rejected call       *)
(* returns at once.                                                        *)
(***************************************************************************)
a2Enter(t, desc, count) ==
    /\ thread[t].pc = "idle"
    /\ LET st == allocate2Check(desc, count)
       IN  IF st # "OK"
           THEN /\ call' = [call EXCEPT ![t] =
                        [NoCall EXCEPT !.op = "allocate2", !.desc = desc,
                                       !.count = count, !.status = st]]
                /\ UNCHANGED thread
           ELSE /\ call' = [call EXCEPT ![t] =
                        [NoCall EXCEPT !.op = "allocate2", !.desc = desc,
                                       !.count = count, !.status = "PENDING"]]
                /\ thread' = [thread EXCEPT ![t] = [IdleThread EXCEPT !.pc = "session"]]
    /\ UNCHANGED <<mBufferIdGenerator, session, openFds, mapped, hostColorBuffers,
                   delivered, allocLog>>
    /\ UNCHANGED <<mapperVars, memVars>>

(***************************************************************************)
(* HostConnectionSession connSession(mHostConn.get()): the session locks   *)
(* the connection, so one thread at a time is inside one.                  *)
(***************************************************************************)
HostConnectionSessionEnter(owner, t) == owner = 0

BadA2Session(t) ==
    /\ thread[t].pc = "session"
    /\ session' = t
    /\ thread' = [thread EXCEPT ![t].pc = "loop"]
    /\ UNCHANGED <<mBufferIdGenerator, call, openFds, mapped, hostColorBuffers,
                   delivered, allocLog>>
    /\ UNCHANGED <<mapperVars, memVars>>

a2Session(t) ==
    /\ thread[t].pc = "session"
    /\ HostConnectionSessionEnter(session, t)
    /\ session' = t
    /\ thread' = [thread EXCEPT ![t].pc = "loop"]
    /\ UNCHANGED <<mBufferIdGenerator, call, openFds, mapped, hostColorBuffers,
                   delivered, allocLog>>
    /\ UNCHANGED <<mapperVars, memVars>>

(***************************************************************************)
(* ++mBufferIdGenerator is a plain read, add and write of a uint64_t: the  *)
(* read is a step of its own.                                              *)
(***************************************************************************)
a2LoadId(t) ==
    /\ thread[t].pc = "loop"
    /\ thread[t].i < call[t].count
    /\ mBufferIdGenerator < MaxBufferId
    /\ thread' = [thread EXCEPT ![t].pc = "alloc", ![t].id = mBufferIdGenerator]
    /\ UNCHANGED <<mBufferIdGenerator, session, call, openFds, mapped,
                   hostColorBuffers, delivered, allocLog>>
    /\ UNCHANGED <<mapperVars, memVars>>

BadIncrement(loaded) == loaded

Increment(loaded) == loaded + 1

(***************************************************************************)
(* The write of ++mBufferIdGenerator and allocateImpl with the new value.  *)
(* On a failure allocateImpl releases what it took itself, allocate2 rolls *)
(* back, leaves the session and returns NO_RESOURCES.                      *)
(***************************************************************************)
a2Allocate(t, outcome) ==
    /\ thread[t].pc = "alloc"
    /\ LET req == AllocationRequest(call[t].desc)
           bufferID == Increment(thread[t].id)
           cb == allocateImpl(req, bufferID)
           i == thread[t].i
       IN  /\ outcome \in AllocationOutcomes(req)
           /\ mBufferIdGenerator' = bufferID
           /\ IF outcome = "ok"
              THEN /\ thread' = [thread EXCEPT
                           ![t].cbs = Append(thread[t].cbs, cb),
                           ![t].i = i + 1,
                           ![t].pc = IF i + 1 < call[t].count THEN "loop" ELSE "finish"]
                   /\ call' = [call EXCEPT ![t].allocated = @ \cup {bufferID}]
                   /\ openFds' = openFds \cup {cb.bufferFd}
                                   \cup (IF cb.hostHandleRefcountFd >= 0
                                         THEN {cb.hostHandleRefcountFd} ELSE {})
                   /\ mapped' = mapped \cup {cb.bufferPtr}
                   /\ hostColorBuffers' =
                          hostColorBuffers \cup (IF cb.hostHandle # 0 THEN {cb.hostHandle} ELSE {})
                   /\ allocLog' = Append(allocLog, cb.metadata.bufferID)
                   /\ UNCHANGED session
              ELSE LET undone == {thread[t].cbs[j + 1] : j \in RollbackIndices(i)}
                       closed == UNION {unallocate(c).closed : c \in undone}
                       unmapped == UNION {unallocate(c).unmapped : c \in undone}
                   IN  /\ openFds' = openFds \ closed
                       /\ mapped' = mapped \ unmapped
                       /\ hostColorBuffers' =
                              LiveColorBuffers(hostColorBuffers, openFds \ closed, delivered)
                       /\ thread' = [thread EXCEPT ![t] = IdleThread]
                       /\ call' = [call EXCEPT ![t].status = "NO_RESOURCES"]
                       /\ session' = 0
                       /\ UNCHANGED allocLog
    /\ UNCHANGED delivered
    /\ UNCHANGED <<mapperVars, memVars>>

(***************************************************************************)
(* After the loop: the session ends, every cb is dup'ed into the result    *)
(* and unallocated, and the call returns ok.                               *)
(***************************************************************************)
\* the buffers whose fds the result holds copies of
BadDupToAidl(cbs) == {}

dupToAidl(cbs) == {c.metadata.bufferID : c \in cbs}

a2Finish(t) ==
    /\ thread[t].pc = "finish"
    /\ LET cbs == thread[t].cbs
           all == {cbs[k] : k \in 1..Len(cbs)}
           closed == UNION {unallocate(c).closed : c \in all}
           unmapped == UNION {unallocate(c).unmapped : c \in all}
       IN  /\ session' = 0
           /\ delivered' = delivered \cup dupToAidl(all)
           /\ openFds' = openFds \ closed
           /\ mapped' = mapped \ unmapped
           /\ hostColorBuffers' =
                  LiveColorBuffers(hostColorBuffers, openFds \ closed,
                                   delivered \cup dupToAidl(all))
           /\ call' = [call EXCEPT ![t].status = "OK",
                                   ![t].stride = AllocationRequest(call[t].desc).stride0,
                                   ![t].buffers = cbs]
           /\ thread' = [thread EXCEPT ![t] = IdleThread]
    /\ UNCHANGED <<mBufferIdGenerator, allocLog>>
    /\ UNCHANGED <<mapperVars, memVars>>

(***************************************************************************)
(* isSupported.                                                            *)
(***************************************************************************)
isSupported(t, desc) ==
    /\ thread[t].pc = "idle"
    /\ call' = [call EXCEPT ![t] =
            [NoCall EXCEPT !.op = "isSupported", !.desc = desc,
                           !.status = IF isSupportedImpl(desc) THEN "TRUE" ELSE "FALSE"]]
    /\ UNCHANGED <<mBufferIdGenerator, session, thread, openFds, mapped,
                   hostColorBuffers, delivered, allocLog>>
    /\ UNCHANGED <<mapperVars, memVars>>

(***************************************************************************)
(* The mapper (mapper.cpp).                                                *)
(*                                                                         *)
(* A buffer_handle_t passed to the mapper is a pointer: to a handle that   *)
(* importBuffer returned in this process ("ptr", dangling once freed), to  *)
(* the raw handle of a buffer as it came from the allocator ("raw"), to    *)
(* something that is no cb_handle_t ("malformed"), or null.                *)
(***************************************************************************)
kCPU_READ_MASK == CPU_READ_MASK
kCPU_WRITE_MASK == CPU_WRITE_MASK

NullHandle == [kind |-> "null", ref |-> 0]
MalformedHandle == [kind |-> "malformed", ref |-> 0]
RawHandle(b) == [kind |-> "raw", ref |-> b]
BufferHandle(a) == [kind |-> "ptr", ref |-> a]

\* a place for a cloned handle: never used, holding an imported handle, or
\* freed memory that once held one
UnusedSlot == [state |-> "unused", buf |-> 0, lockedUsage |-> {}, bufferPtr |-> 0]

\* where memoryMap places the region of the handle cloned at address a
MapAddrOf(a) == 65536 * a

isYuvFormat(format) ==
    format \in {"YCRCB_420_SP", "YV12", "YCBCR_420_888", "YCBCR_P010"}

getFormatChromaSiting(format) ==
    IF isYuvFormat(format) THEN "SITED_INTERSTITIAL" ELSE "NONE"

(***************************************************************************)
(* cb_handle_t::from: null for a null pointer and for a native handle that *)
(* is no cb_handle_t.                                                      *)
(***************************************************************************)
cb_handle_from(h) == h.kind \in {"raw", "ptr"}

BadValidateCb(imported, h) == h.kind = "ptr"

validateCb(imported, h) == h.kind = "ptr" /\ h.ref \in imported

(***************************************************************************)
(* mImportedBuffersMtx of the process whose threads are modelled.          *)
(* validateCb, the insert of importBuffer and the erase of freeBuffer take *)
(* and release it within one step; dumpAllBuffers holds it from its first  *)
(* statement to its return, over all steps of its loop.                    *)
(***************************************************************************)
MtProc == "app"

\* the threads that hold the mutex between steps
mImportedBuffersMtx == {t \in Threads : mthread[t].pc = "dump"}

BadLockGuard(holders) == TRUE

\* std::lock_guard<std::mutex> lock(mImportedBuffersMtx) goes on when no
\* thread holds the mutex
lock_guard(holders) == holders = {}

(***************************************************************************)
(* The host calls of readFromHost and flushToHost, in order.  flushOk says *)
(* whether rcColorBufferCacheFlush returned a result >= 0.                 *)
(***************************************************************************)
BadReadFromHost(cb, flushOk) ==
    IF isYuvFormat(cb.format)
    THEN [result |-> "NONE",
          hostCalls |-> <<"rcColorBufferCacheFlush", "rcReadColorBufferYUV">>]
    ELSE [result |-> "NONE",
          hostCalls |-> <<"rcColorBufferCacheFlush", "bindDmaDirectly",
                          "rcReadColorBufferDMA">>]

BadReadBeforeFlush(cb, flushOk) ==
    [result |-> "NONE",
     hostCalls |-> <<"bindDmaDirectly", "rcReadColorBufferDMA",
                     "rcColorBufferCacheFlush">>]

readFromHost(cb, flushOk) ==
    IF ~flushOk
    THEN [result |-> "NO_RESOURCES", hostCalls |-> <<"rcColorBufferCacheFlush">>]
    ELSE IF isYuvFormat(cb.format)
    THEN [result |-> "NONE",
          hostCalls |-> <<"rcColorBufferCacheFlush", "rcReadColorBufferYUV">>]
    ELSE [result |-> "NONE",
          hostCalls |-> <<"rcColorBufferCacheFlush", "bindDmaDirectly",
                          "rcReadColorBufferDMA">>]

BadFlushToHost(cb) == <<"bindDmaDirectly">>

BadUpdateBeforeBind(cb) == <<"rcUpdateColorBufferDMA", "bindDmaDirectly">>

flushToHost(cb) == <<"bindDmaDirectly", "rcUpdateColorBufferDMA">>

(***************************************************************************)
(* lock, lines 485-501: the checks of accessRegion = <<left, top, right,   *)
(* bottom>> against the buffer's width and height.                         *)
(***************************************************************************)
BadAccessRegionRejected(accessRegion, metadata) ==
    LET left == accessRegion[1]
        top == accessRegion[2]
        right == accessRegion[3]
        bottom == accessRegion[4]
    IN  \/ left < 0
        \/ top < 0
        \/ bottom < top
        \/ right < left
        \/ right > metadata.width
        \/ bottom > metadata.height
        \/ right # 0 /\ left = right

accessRegionRejected(accessRegion, metadata) ==
    LET left == accessRegion[1]
        top == accessRegion[2]
        right == accessRegion[3]
        bottom == accessRegion[4]
    IN  \/ left < 0
        \/ top < 0
        \/ bottom < top
        \/ right < left
        \/ right > metadata.width
        \/ bottom > metadata.height
        \/ right # 0 /\ left = right
        \/ bottom # 0 /\ top = bottom

BadCpuUsage(uncheckedUsage, cbUsage) ==
    uncheckedUsage \cap (kCPU_READ_MASK \cup kCPU_WRITE_MASK)

\* lock, line 503
cpuUsage(uncheckedUsage, cbUsage) ==
    uncheckedUsage \cap cbUsage \cap (kCPU_READ_MASK \cup kCPU_WRITE_MASK)

BadLockChecks(lockedUsage, cbUsage, metadata, uncheckedUsage, accessRegion) ==
    IF accessRegionRejected(accessRegion, metadata) THEN "BAD_VALUE"
    ELSE IF cpuUsage(uncheckedUsage, cbUsage) = {} THEN "BAD_VALUE"
    ELSE IF lockedUsage # {} THEN "BAD_BUFFER"
    ELSE "NONE"

LockChecksPassing(lockedUsage, cbUsage, metadata, uncheckedUsage, accessRegion) == "NONE"

LockChecksIgnoringLock(lockedUsage, cbUsage, metadata, uncheckedUsage, accessRegion) ==
    IF accessRegionRejected(accessRegion, metadata) THEN "BAD_VALUE"
    ELSE IF cpuUsage(uncheckedUsage, cbUsage) = {} THEN "BAD_VALUE"
    ELSE "NONE"

(***************************************************************************)
(* lock, lines 479-507: the checks made, in this order, on a handle that   *)
(* validateCb accepted.                                                    *)
(***************************************************************************)
lockChecks(lockedUsage, cbUsage, metadata, uncheckedUsage, accessRegion) ==
    IF lockedUsage # {} THEN "BAD_BUFFER"
    ELSE IF accessRegionRejected(accessRegion, metadata) THEN "BAD_VALUE"
    ELSE IF cpuUsage(uncheckedUsage, cbUsage) = {} THEN "BAD_VALUE"
    ELSE "NONE"

(***************************************************************************)
(* kMetadataTypeDescriptionList: the standard metadata types, all          *)
(* gettable, and the settable ones.                                        *)
(***************************************************************************)
kMetadataTypeDescriptionList ==
    {"BUFFER_ID", "NAME", "WIDTH", "HEIGHT", "LAYER_COUNT", "PIXEL_FORMAT_REQUESTED",
     "PIXEL_FORMAT_FOURCC", "PIXEL_FORMAT_MODIFIER", "USAGE", "ALLOCATION_SIZE",
     "PROTECTED_CONTENT", "COMPRESSION", "INTERLACED", "CHROMA_SITING",
     "PLANE_LAYOUTS", "CROP", "DATASPACE", "BLEND_MODE", "SMPTE2086", "CTA861_3",
     "STRIDE"}

\* isGettable and isSettable of the entry of a type in the list
isGettable(standardMetadataType) == standardMetadataType \in kMetadataTypeDescriptionList

isSettable(standardMetadataType) ==
    standardMetadataType \in {"DATASPACE", "BLEND_MODE", "SMPTE2086", "CTA861_3"}

kStandardMetadataTypeStr == "android.hardware.graphics.common.StandardMetadataType"

PROTECTED == {14}

(***************************************************************************)
(* getStandardMetadataImpl with a destination large enough: the error, or  *)
(* the values written after the header.                                    *)
(***************************************************************************)
BadGetStandardMetadataImpl(cb, metadata, standardMetadataType) ==
    IF standardMetadataType \in {"PLANE_LAYOUTS", "CROP", "STRIDE"}
    THEN [result |-> "UNSUPPORTED", out |-> <<>>]
    ELSE [result |-> "NONE", out |-> <<0>>]

BadStrideMetadataImpl(cb, metadata, standardMetadataType) ==
    [result |-> "NONE", out |-> <<metadata.planeLayout[1].strideInBytes>>]

getStandardMetadataImpl(cb, metadata, standardMetadataType) ==
    LET Put(values) == [result |-> "NONE", out |-> values]
        Fail(e) == [result |-> e, out |-> <<>>]
        t == standardMetadataType
    IN  CASE t = "BUFFER_ID" -> Put(<<metadata.bufferID>>)
          [] t = "NAME" -> Put(<<metadata.name>>)
          [] t = "WIDTH" -> Put(<<metadata.width>>)
          [] t = "HEIGHT" -> Put(<<metadata.height>>)
          [] t = "LAYER_COUNT" -> Put(<<1>>)
          [] t = "PIXEL_FORMAT_REQUESTED" -> Put(<<cb.format>>)
          [] t = "PIXEL_FORMAT_FOURCC" -> Put(<<cb.drmformat>>)
          [] t = "PIXEL_FORMAT_MODIFIER" -> Put(<<"DRM_FORMAT_MOD_LINEAR">>)
          [] t = "USAGE" -> Put(<<cb.usage>>)
          [] t = "ALLOCATION_SIZE" -> Put(<<cb.mmapedSize>>)
          [] t = "PROTECTED_CONTENT" ->
                 Put(<<IF cb.usage \cap PROTECTED # {} THEN 1 ELSE 0>>)
          [] t = "COMPRESSION" -> Put(<<"NONE">>)
          [] t = "INTERLACED" -> Put(<<"NONE">>)
          [] t = "CHROMA_SITING" -> Put(<<getFormatChromaSiting(cb.format)>>)
          [] t = "PLANE_LAYOUTS" ->
                 IF metadata.planeLayoutSize = 0 THEN Fail("UNSUPPORTED")
                 ELSE Put([k \in 1..metadata.planeLayoutSize |-> metadata.planeLayout[k]])
          [] t = "CROP" ->
                 IF metadata.planeLayoutSize = 0 THEN Fail("UNSUPPORTED")
                 ELSE Put([k \in 1..metadata.planeLayoutSize |->
                              <<0, 0, metadata.width, metadata.height>>])
          [] t = "DATASPACE" -> Put(<<metadata.dataspace>>)
          [] t = "BLEND_MODE" -> Put(<<metadata.blendMode>>)
          [] t = "SMPTE2086" ->
                 IF metadata.has_smpte2086 THEN Put(<<metadata.smpte2086>>) ELSE Put(<<>>)
          [] t = "CTA861_3" ->
                 IF metadata.has_cta861_3 THEN Put(<<metadata.cta861_3>>) ELSE Put(<<>>)
          [] t = "STRIDE" ->
                 Put(<<IF metadata.planeLayoutSize = 1
                       THEN metadata.planeLayout[1].strideInBytes
                                \div metadata.planeLayout[1].sampleIncrementInBytes
                       ELSE 0>>)
          [] OTHER -> Fail("UNSUPPORTED")

(***************************************************************************)
(* setStandardMetadataImpl.  A payload is [header, value]: header is "ok"  *)
(* for the tag and type of the metadata type being set, "bad" for another  *)
(* tag or type, "none" for an empty payload, "short" for the right header  *)
(* followed by less than the value.  The result and the X record the call  *)
(* leaves.                                                                 *)
(***************************************************************************)
BadSetStandardMetadataImpl(metadata, standardMetadataType, payload) ==
    [result |-> "NONE", metadata |-> [metadata EXCEPT !.dataspace = payload.value]]

BadSetWritesFixedField(metadata, standardMetadataType, payload) ==
    IF standardMetadataType = "DATASPACE" /\ payload.header = "ok"
    THEN [result |-> "NONE",
          metadata |-> [metadata EXCEPT !.reservedRegionSize = payload.value]]
    ELSE [result |-> "UNSUPPORTED", metadata |-> metadata]

BadSetKeepsHasFlag(metadata, standardMetadataType, payload) ==
    IF standardMetadataType # "SMPTE2086" THEN [result |-> "UNSUPPORTED", metadata |-> metadata]
    ELSE IF payload.header = "bad" THEN [result |-> "BAD_VALUE", metadata |-> metadata]
    ELSE IF payload.header = "none" THEN [result |-> "NONE", metadata |-> metadata]
    ELSE [result |-> "NONE",
          metadata |-> [metadata EXCEPT !.smpte2086.maxLuminance = payload.value,
                                        !.has_smpte2086 = TRUE]]

BadSetBeforeReaderCheck(metadata, standardMetadataType, payload) ==
    IF standardMetadataType # "SMPTE2086" THEN [result |-> "UNSUPPORTED", metadata |-> metadata]
    ELSE IF payload.header = "bad" THEN [result |-> "BAD_VALUE", metadata |-> metadata]
    ELSE IF payload.header = "none" THEN [result |-> "NONE", metadata |-> metadata]
    ELSE [result |-> IF payload.header = "ok" THEN "NONE" ELSE "BAD_VALUE",
          metadata |-> [metadata EXCEPT !.smpte2086.maxLuminance =
                                            IF payload.header = "ok" THEN payload.value ELSE @,
                                        !.has_smpte2086 = TRUE]]

\* MetadataReader::read: the value of the payload reaches the destination
\* when the payload holds all of it; a payload cut short leaves the
\* destination as it was and the reader not ok
BadReaderRead(dest, payload) == payload.value

readerRead(dest, payload) == IF payload.header = "ok" THEN payload.value ELSE dest

setStandardMetadataImpl(metadata, standardMetadataType, payload) ==
    LET t == standardMetadataType
        checkMetadataHeader == payload.header \in {"ok", "short"}
        readerOk == payload.header = "ok"
        Done(m) == [result |-> "NONE", metadata |-> m]
        Fail(e) == [result |-> e, metadata |-> metadata]
        Read(m) == IF readerOk THEN Done(m) ELSE [result |-> "BAD_VALUE", metadata |-> m]
    IN  CASE t = "DATASPACE" ->
                 IF ~checkMetadataHeader THEN Fail("BAD_VALUE")
                 ELSE Read([metadata EXCEPT !.dataspace = readerRead(@, payload)])
          [] t = "BLEND_MODE" ->
                 IF ~checkMetadataHeader THEN Fail("BAD_VALUE")
                 ELSE Read([metadata EXCEPT !.blendMode = readerRead(@, payload)])
          [] t = "SMPTE2086" ->
                 IF payload.header # "none"
                 THEN IF ~checkMetadataHeader THEN Fail("BAD_VALUE")
                      ELSE LET smpte2086 ==
                                   [ZeroSmpte2086 EXCEPT
                                       !.maxLuminance = readerRead(@, payload)]
                           IN  IF readerOk
                               THEN Done([metadata EXCEPT !.smpte2086 = smpte2086,
                                                          !.has_smpte2086 = TRUE])
                               ELSE Fail("BAD_VALUE")
                 ELSE Done([metadata EXCEPT !.has_smpte2086 = FALSE])
          [] t = "CTA861_3" ->
                 IF payload.header # "none"
                 THEN IF ~checkMetadataHeader THEN Fail("BAD_VALUE")
                      ELSE LET cta861_3 ==
                                   [ZeroCta861_3 EXCEPT
                                       !.maxContentLightLevel = readerRead(@, payload)]
                           IN  IF readerOk
                               THEN Done([metadata EXCEPT !.cta861_3 = cta861_3,
                                                          !.has_cta861_3 = TRUE])
                               ELSE Fail("BAD_VALUE")
                 ELSE Done([metadata EXCEPT !.has_cta861_3 = FALSE])
          [] OTHER -> Fail("UNSUPPORTED")

(***************************************************************************)
(* The mapper's operations.  Each records in lastOp what was called, what  *)
(* it returned and the host calls it issued, in order.                     *)
(***************************************************************************)
\* what a call without arguments passes, what a call without results returns
NoArgs == [none |-> TRUE]
NoOut == [none |-> TRUE]

Op(op, p, h, args, result, out, hostCalls) ==
    [op |-> op, proc |-> p, h |-> h, args |-> args, result |-> result,
     out |-> out, hostCalls |-> hostCalls]

\* a pointer a client can hold: no client has a pointer to a handle that was
\* never made
Known(p, h) == h.kind = "ptr" => handles[p][h.ref].state # "unused"

\* the cb_handle_t behind an imported handle: the clone of the raw handle,
\* with its own lockedUsage and bufferPtr
CbOf(p, h) ==
    [buffers[handles[p][h.ref].buf] EXCEPT
        !.lockedUsage = handles[p][h.ref].lockedUsage,
        !.bufferPtr = handles[p][h.ref].bufferPtr]

\* what the host calls of a mapper call do to the bytes of the buffer behind
\* its handle: rcUpdateColorBufferDMA sends the shared memory to the color
\* buffer, rcReadColorBufferDMA and rcReadColorBufferYUV fill the shared
\* memory from it
HostEffect(rec) ==
    LET calls == {rec.hostCalls[i] : i \in 1..Len(rec.hostCalls)}
        b == handles[rec.proc][rec.h.ref].buf
    IN  IF "rcUpdateColorBufferDMA" \in calls
        THEN /\ hostMem' = [hostMem EXCEPT ![b] = guestMem[b]]
             /\ UNCHANGED guestMem
        ELSE IF calls \cap {"rcReadColorBufferDMA", "rcReadColorBufferYUV"} # {}
        THEN /\ guestMem' = [guestMem EXCEPT ![b] = hostMem[b]]
             /\ UNCHANGED hostMem
        ELSE UNCHANGED <<guestMem, hostMem>>

MapperReturns(rec) ==
    /\ lastOp' = rec
    /\ HostEffect(rec)
    /\ UNCHANGED <<allocVars, mthread, hostConn>>

MapperFails(rec) ==
    /\ MapperReturns(rec)
    /\ UNCHANGED <<buffers, mImportedBuffers, handles>>

BadImportBuffer(p, handle, outcome) ==
    /\ handle.kind = "raw"
    /\ \E imported \in Addrs \ mImportedBuffers[p] :
          /\ handles' = [handles EXCEPT ![p][imported] =
                 [state |-> "imported", buf |-> handle.ref, lockedUsage |-> {},
                  bufferPtr |-> MapAddrOf(imported)]]
          /\ mImportedBuffers' = [mImportedBuffers EXCEPT ![p] = @ \cup {imported}]
          /\ MapperReturns(Op("importBuffer", p, handle, [outcome |-> outcome],
                              IF outcome = "memoryMap" THEN "NO_RESOURCES" ELSE "NONE",
                              [handle |-> BufferHandle(imported)], <<>>))
          /\ UNCHANGED buffers

importBuffer(p, handle, outcome) ==
    /\ handle.kind # "ptr"
    /\ LET free == {a \in Addrs : /\ a \notin mImportedBuffers[p]
                                  /\ handles[p][a].state # "erased"}
           args == [outcome |-> outcome]
           Failed(e) == MapperFails(Op("importBuffer", p, handle, args, e, NoOut, <<>>))
       IN  IF handle.kind = "null" THEN Failed("BAD_BUFFER")
           ELSE IF outcome = "native_handle_clone" THEN Failed("BAD_BUFFER")
           ELSE /\ free # {}
                /\ IF ~cb_handle_from(handle) THEN Failed("BAD_BUFFER")
                   ELSE IF buffers[handle.ref].mmapedSize # 0 /\ outcome = "memoryMap"
                   THEN Failed("NO_RESOURCES")
                   ELSE \E imported \in {a \in free : \A x \in free : a <= x} :
                          /\ p = MtProc => lock_guard(mImportedBuffersMtx)
                          /\ handles' = [handles EXCEPT ![p][imported] =
                                 [state |-> "imported",
                                  buf |-> handle.ref,
                                  lockedUsage |-> buffers[handle.ref].lockedUsage,
                                  bufferPtr |-> IF buffers[handle.ref].mmapedSize # 0
                                                THEN MapAddrOf(imported)
                                                ELSE buffers[handle.ref].bufferPtr]]
                          /\ mImportedBuffers' =
                                 [mImportedBuffers EXCEPT ![p] = @ \cup {imported}]
                          /\ MapperReturns(Op("importBuffer", p, handle, args, "NONE",
                                              [handle |-> BufferHandle(imported)],
                                              <<>>))
                          /\ UNCHANGED buffers

freeBuffer(p, buffer) ==
    /\ Known(p, buffer)
    /\ IF ~(buffer.kind = "ptr" /\ buffer.ref \in mImportedBuffers[p])
       THEN MapperFails(Op("freeBuffer", p, buffer, NoArgs, "BAD_BUFFER", NoOut, <<>>))
       ELSE LET cb == CbOf(p, buffer)
            IN  /\ mImportedBuffers' = [mImportedBuffers EXCEPT ![p] = @ \ {buffer.ref}]
                /\ handles' = [handles EXCEPT ![p][buffer.ref] =
                       [state |-> "freed", buf |-> @.buf, lockedUsage |-> {},
                        bufferPtr |-> 0]]
                /\ MapperReturns(Op("freeBuffer", p, buffer, NoArgs, "NONE", NoOut,
                       IF cb.hostHandle # 0 /\ cb.lockedUsage \cap kCPU_WRITE_MASK # {}
                       THEN flushToHost(cb) ELSE <<>>))
                /\ UNCHANGED buffers

(***************************************************************************)
(* getTransportSize reads the handle without asking whether it is          *)
(* imported.  Behind a freed handle is freed memory: intact says whether   *)
(* it still holds what the handle held.                                    *)
(***************************************************************************)
getTransportSize(p, buffer, intact) ==
    /\ Known(p, buffer)
    /\ LET cb == IF ~cb_handle_from(buffer) THEN FALSE
                 ELSE IF buffer.kind = "ptr" /\ handles[p][buffer.ref].state = "freed"
                 THEN intact
                 ELSE TRUE
           raw == IF buffer.kind = "ptr" THEN buffers[handles[p][buffer.ref].buf]
                  ELSE buffers[buffer.ref]
           numFds == (IF raw.bufferFd >= 0 THEN 1 ELSE 0)
                         + (IF raw.hostHandleRefcountFd >= 0 THEN 1 ELSE 0)
       IN  IF ~cb
           THEN MapperFails(Op("getTransportSize", p, buffer, NoArgs, "BAD_BUFFER",
                               NoOut, <<>>))
           ELSE MapperFails(Op("getTransportSize", p, buffer, NoArgs, "NONE",
                               [numFds |-> numFds], <<>>))

lock(p, buffer, uncheckedUsage, accessRegion, acquireFence, fenceOk, flushOk) ==
    /\ Known(p, buffer)
    /\ LET args == [usage |-> uncheckedUsage, accessRegion |-> accessRegion,
                    acquireFence |-> acquireFence, fenceOk |-> fenceOk,
                    flushOk |-> flushOk]
           Failed(e, calls) == MapperFails(Op("lock", p, buffer, args, e, NoOut, calls))
       IN  IF ~validateCb(mImportedBuffers[p], buffer) THEN Failed("BAD_BUFFER", <<>>)
           ELSE
           LET cb == CbOf(p, buffer)
               checks == lockChecks(cb.lockedUsage, cb.usage, cb.metadata,
                                    uncheckedUsage, accessRegion)
               read == IF cb.hostHandle # 0 THEN readFromHost(cb, flushOk)
                       ELSE [result |-> "NONE", hostCalls |-> <<>>]
           IN  IF checks # "NONE" THEN Failed(checks, <<>>)
               ELSE IF acquireFence >= 0 /\ ~fenceOk THEN Failed("NO_RESOURCES", <<>>)
               ELSE IF read.result # "NONE" THEN Failed(read.result, read.hostCalls)
               ELSE /\ handles' = [handles EXCEPT ![p][buffer.ref].lockedUsage =
                                       cpuUsage(uncheckedUsage, cb.usage)]
                    /\ MapperReturns(Op("lock", p, buffer, args, "NONE",
                                        [data |-> cb.bufferPtr], read.hostCalls))
                    /\ UNCHANGED <<buffers, mImportedBuffers>>

BadUnlock(p, buffer) ==
    /\ Known(p, buffer)
    /\ IF ~validateCb(mImportedBuffers[p], buffer)
       THEN MapperFails(Op("unlock", p, buffer, NoArgs, "BAD_BUFFER", NoOut, <<>>))
       ELSE LET cb == CbOf(p, buffer)
            IN  /\ handles' = [handles EXCEPT ![p][buffer.ref].lockedUsage = {}]
                /\ MapperReturns(Op("unlock", p, buffer, NoArgs, "NONE",
                       [releaseFence |-> -1],
                       IF cb.hostHandle # 0 /\ cb.lockedUsage \cap kCPU_WRITE_MASK # {}
                       THEN flushToHost(cb) ELSE <<>>))
                /\ UNCHANGED <<buffers, mImportedBuffers>>

unlock(p, buffer) ==
    /\ Known(p, buffer)
    /\ LET Failed(e) == MapperFails(Op("unlock", p, buffer, NoArgs, e, NoOut, <<>>))
       IN  IF ~validateCb(mImportedBuffers[p], buffer) THEN Failed("BAD_BUFFER")
           ELSE
           LET cb == CbOf(p, buffer)
           IN  IF cb.lockedUsage = {} THEN Failed("BAD_BUFFER")
               ELSE /\ handles' = [handles EXCEPT ![p][buffer.ref].lockedUsage = {}]
                    /\ MapperReturns(Op("unlock", p, buffer, NoArgs, "NONE",
                           [releaseFence |-> -1],
                           IF cb.hostHandle # 0 /\ cb.lockedUsage \cap kCPU_WRITE_MASK # {}
                           THEN flushToHost(cb) ELSE <<>>))
                    /\ UNCHANGED <<buffers, mImportedBuffers>>

BadFlushLockedBuffer(p, buffer) ==
    /\ Known(p, buffer)
    /\ LET Result(e, calls) ==
               MapperFails(Op("flushLockedBuffer", p, buffer, NoArgs, e, NoOut, calls))
       IN  IF ~validateCb(mImportedBuffers[p], buffer) THEN Result("BAD_BUFFER", <<>>)
           ELSE
           LET cb == CbOf(p, buffer)
           IN  IF cb.lockedUsage \cap kCPU_READ_MASK = {} THEN Result("BAD_BUFFER", <<>>)
               ELSE Result("NONE", IF cb.hostHandle # 0 THEN flushToHost(cb) ELSE <<>>)

flushLockedBuffer(p, buffer) ==
    /\ Known(p, buffer)
    /\ LET Result(e, calls) ==
               MapperFails(Op("flushLockedBuffer", p, buffer, NoArgs, e, NoOut, calls))
       IN  IF ~validateCb(mImportedBuffers[p], buffer) THEN Result("BAD_BUFFER", <<>>)
           ELSE
           LET cb == CbOf(p, buffer)
           IN  IF cb.lockedUsage \cap kCPU_WRITE_MASK = {} THEN Result("BAD_BUFFER", <<>>)
               ELSE Result("NONE", IF cb.hostHandle # 0 THEN flushToHost(cb) ELSE <<>>)

rereadLockedBuffer(p, buffer, flushOk) ==
    /\ Known(p, buffer)
    /\ LET Result(e, calls) ==
               MapperFails(Op("rereadLockedBuffer", p, buffer, NoArgs, e, NoOut, calls))
       IN  IF ~validateCb(mImportedBuffers[p], buffer) THEN Result("BAD_BUFFER", <<>>)
           ELSE
           LET cb == CbOf(p, buffer)
               read == readFromHost(cb, flushOk)
           IN  IF cb.lockedUsage \cap kCPU_READ_MASK = {} THEN Result("BAD_BUFFER", <<>>)
               ELSE IF cb.hostHandle # 0 THEN Result(read.result, read.hostCalls)
               ELSE Result("NONE", <<>>)

getStandardMetadataCall(p, buffer, standardMetadataType) ==
    IF ~validateCb(mImportedBuffers[p], buffer)
    THEN [result |-> "BAD_BUFFER", out |-> NoOut]
    ELSE LET r == getStandardMetadataImpl(CbOf(p, buffer), CbOf(p, buffer).metadata,
                                          standardMetadataType)
         IN  [result |-> r.result,
              out |-> IF r.result = "NONE" THEN (standardMetadataType :> r.out)
                      ELSE NoOut]

getStandardMetadata(p, buffer, standardMetadataType) ==
    /\ Known(p, buffer)
    /\ LET r == getStandardMetadataCall(p, buffer, standardMetadataType)
       IN  MapperFails(Op("getStandardMetadata", p, buffer,
                          [type |-> standardMetadataType], r.result, r.out, <<>>))

getMetadata(p, buffer, name, value) ==
    /\ Known(p, buffer)
    /\ LET r == IF name # kStandardMetadataTypeStr
                THEN [result |-> "UNSUPPORTED", out |-> NoOut]
                ELSE getStandardMetadataCall(p, buffer, value)
       IN  MapperFails(Op("getMetadata", p, buffer, [name |-> name, type |-> value],
                          r.result, r.out, <<>>))

\* the X record lies in the buffer's region, which every import of the buffer
\* maps: a write to it is a write to buffers
setStandardMetadataCall(p, buffer, standardMetadataType, payload) ==
    IF ~validateCb(mImportedBuffers[p], buffer)
    THEN [result |-> "BAD_BUFFER", buffers |-> buffers]
    ELSE LET r == setStandardMetadataImpl(CbOf(p, buffer).metadata,
                                          standardMetadataType, payload)
         IN  [result |-> r.result,
              buffers |-> [buffers EXCEPT ![handles[p][buffer.ref].buf].metadata =
                                              r.metadata]]

setStandardMetadata(p, buffer, standardMetadataType, payload) ==
    /\ Known(p, buffer)
    /\ LET r == setStandardMetadataCall(p, buffer, standardMetadataType, payload)
       IN  /\ buffers' = r.buffers
           /\ MapperReturns(Op("setStandardMetadata", p, buffer,
                               [type |-> standardMetadataType, payload |-> payload],
                               r.result, NoOut, <<>>))
           /\ UNCHANGED <<mImportedBuffers, handles>>

setMetadata(p, buffer, name, value, payload) ==
    /\ Known(p, buffer)
    /\ LET r == IF name # kStandardMetadataTypeStr
                THEN [result |-> "UNSUPPORTED", buffers |-> buffers]
                ELSE setStandardMetadataCall(p, buffer, value, payload)
       IN  /\ buffers' = r.buffers
           /\ MapperReturns(Op("setMetadata", p, buffer,
                               [name |-> name, type |-> value, payload |-> payload],
                               r.result, NoOut, <<>>))
           /\ UNCHANGED <<mImportedBuffers, handles>>

\* dumpBufferImpl calls back with every gettable type that
\* getStandardMetadataImpl returns
dumpBuffer(p, buffer) ==
    /\ Known(p, buffer)
    /\ IF ~validateCb(mImportedBuffers[p], buffer)
       THEN MapperFails(Op("dumpBuffer", p, buffer, NoArgs, "BAD_BUFFER", NoOut, <<>>))
       ELSE MapperFails(Op("dumpBuffer", p, buffer, NoArgs, "NONE",
               [types |-> {m \in kMetadataTypeDescriptionList :
                   getStandardMetadataImpl(CbOf(p, buffer), CbOf(p, buffer).metadata,
                                           m).result = "NONE"}],
               <<>>))

getReservedRegion(p, buffer) ==
    /\ Known(p, buffer)
    /\ IF ~validateCb(mImportedBuffers[p], buffer)
       THEN MapperFails(Op("getReservedRegion", p, buffer, NoArgs, "BAD_BUFFER", NoOut, <<>>))
       ELSE LET cb == CbOf(p, buffer)
                reservedRegionSize == cb.metadata.reservedRegionSize
            IN  MapperFails(Op("getReservedRegion", p, buffer, NoArgs, "NONE",
                    [region |-> IF reservedRegionSize # 0
                                THEN cb.bufferPtr + cb.externalMetadataOffset
                                         + kCbExternalMetadataSize
                                ELSE 0,
                     size |-> reservedRegionSize],
                    <<>>))

NoOp == Op("none", "", NullHandle, NoArgs, "NONE", NoOut, <<>>)

AllocInit ==
    /\ mBufferIdGenerator = 0
    /\ session = 0
    /\ thread = [t \in Threads |-> IdleThread]
    /\ call = [t \in Threads |-> NoCall]
    /\ openFds = {}
    /\ mapped = {}
    /\ hostColorBuffers = {}
    /\ delivered = {}
    /\ allocLog = <<>>

MapperIdle ==
    /\ buffers = <<>>
    /\ mImportedBuffers = [p \in Procs |-> {}]
    /\ handles = [p \in Procs |-> [a \in Addrs |-> UnusedSlot]]
    /\ lastOp = NoOp
    /\ mthread = [t \in Threads |-> IdleCall]
    /\ hostConn = 0
    /\ guestMem = <<>>
    /\ hostMem = <<>>

Init == AllocInit /\ MapperIdle

(***************************************************************************)
(* The allocator service with one binder thread serving calls for one      *)
(* buffer each, over the whole range of descriptors.                       *)
(***************************************************************************)
Next ==
    \/ \E desc \in DescriptorInputs : a2Enter(1, desc, 1)
    \/ \E desc \in BatchDescriptors, count \in {c \in CountInputs : c <= 0} :
           a2Enter(1, desc, count)
    \/ a2Session(1)
    \/ a2LoadId(1)
    \/ \E outcome \in {"ok", "hostMalloc", "qemu_pipe_open",
                       "rcCreateColorBufferDMA", "qemu_pipe_write"} : a2Allocate(1, outcome)
    \/ a2Finish(1)
    \/ \E desc \in DescriptorInputs : isSupported(1, desc)

Spec == Init /\ [][Next]_vars

(***************************************************************************)
(* The allocator service with its pool of binder threads serving batches.  *)
(***************************************************************************)
NextMT ==
    \/ \E t \in Threads, desc \in BatchDescriptors, count \in CountInputs :
           a2Enter(t, desc, count)
    \/ \E t \in Threads : a2Session(t)
    \/ \E t \in Threads : a2LoadId(t)
    \/ \E t \in Threads, outcome \in {"ok", "hostMalloc", "qemu_pipe_open",
                       "rcCreateColorBufferDMA", "qemu_pipe_write"} : a2Allocate(t, outcome)
    \/ \E t \in Threads : a2Finish(t)

SpecMT == Init /\ [][NextMT]_vars

(***************************************************************************)
(* The buffers the mapper's clients received from the allocator: one with  *)
(* CPU read and write and GPU usage, one that is CPU read only and has a   *)
(* reserved region, one YUV buffer with CPU write and GPU usage, one with  *)
(* CPU read and write usage alone, one with GPU usage alone.               *)
(***************************************************************************)
PoolDescriptors ==
    <<Descriptor(MaxWidth, MaxHeight, "RGBA_8888", 1, {1, 5, 8}, 0, 0),
      Descriptor(MaxWidth, MaxHeight, "RGB_888", 1, {1}, 8, 0),
      Descriptor(MaxWidth, MaxHeight, "YV12", 1, {5, 8}, 0, 0),
      Descriptor(MaxWidth, MaxHeight, "RGBA_8888", 1, {1, 5}, 0, 0),
      Descriptor(MaxWidth, MaxHeight, "RGBA_8888", 1, {8}, 0, 0)>>

PoolIds == 1..Len(PoolDescriptors)

BufferPool ==
    [b \in PoolIds |-> allocateImpl(AllocationRequest(PoolDescriptors[b]), b)]

MapperInit ==
    /\ mBufferIdGenerator = Len(PoolDescriptors)
    /\ session = 0
    /\ thread = [t \in Threads |-> IdleThread]
    /\ call = [t \in Threads |-> NoCall]
    /\ openFds = {}
    /\ mapped = {}
    /\ hostColorBuffers = {b \in PoolIds : BufferPool[b].hostHandle # 0}
    /\ delivered = PoolIds
    /\ allocLog = [b \in PoolIds |-> b]
    /\ buffers = BufferPool
    /\ mImportedBuffers = [p \in Procs |-> {}]
    /\ handles = [p \in Procs |-> [a \in Addrs |-> UnusedSlot]]
    /\ lastOp = NoOp
    /\ mthread = [t \in Threads |-> IdleCall]
    /\ hostConn = 0
    /\ guestMem = [b \in PoolIds |-> 0]
    /\ hostMem = [b \in PoolIds |-> 0]

(***************************************************************************)
(* The handles and arguments the clients pass.                             *)
(***************************************************************************)
ImportHandles == {NullHandle, MalformedHandle} \cup {RawHandle(b) : b \in {1, 2}}

OpHandles ==
    {NullHandle, MalformedHandle, RawHandle(1)} \cup {BufferHandle(a) : a \in Addrs}

\* a call on an imported or freed handle with each of the arguments, and on
\* any other handle with one of them
Calls(handleArgs, inputs) ==
    {<<h, in>> : h \in {BufferHandle(a) : a \in Addrs}, in \in inputs}
    \cup {<<h, CHOOSE in \in inputs : TRUE>> : h \in handleArgs}

WholeRegion == <<0, 0, MaxWidth, MaxHeight>>

LockInput(usage, accessRegion, acquireFence, fenceOk, flushOk) ==
    [usage |-> usage, accessRegion |-> accessRegion, acquireFence |-> acquireFence,
     fenceOk |-> fenceOk, flushOk |-> flushOk]

\* the locks of every kind, and one of each way to fail
MapperLockInputs ==
    {LockInput(u, WholeRegion, -1, TRUE, TRUE) : u \in {{1}, {5}, {1, 5}, {8}}}
    \cup {LockInput({1, 5}, <<0, 0, MaxWidth + 1, MaxHeight>>, -1, TRUE, TRUE),
          LockInput({1, 5}, WholeRegion, 3, FALSE, TRUE),
          LockInput({1, 5}, WholeRegion, 3, TRUE, FALSE)}

MetadataTypeInputs == {"WIDTH", "PLANE_LAYOUTS", "DATASPACE", "INVALID"}

MetadataNames == {kStandardMetadataTypeStr, "vendor.MetadataType"}

Payloads ==
    {[header |-> "ok", value |-> 1], [header |-> "bad", value |-> 1],
     [header |-> "none", value |-> 0]}

SetInputs == {[type |-> t, payload |-> pl] : t \in {"DATASPACE", "WIDTH"}, pl \in Payloads}

(***************************************************************************)
(* One process using every operation of the mapper.                        *)
(***************************************************************************)
NextMapper ==
    \/ \E h \in ImportHandles : importBuffer("app", h, "ok")
    \/ \E outcome \in {"native_handle_clone", "memoryMap"} :
           importBuffer("app", RawHandle(1), outcome)
    \/ \E h \in OpHandles : freeBuffer("app", h)
    \/ \E h \in OpHandles, intact \in BOOLEAN : getTransportSize("app", h, intact)
    \/ \E c \in Calls(OpHandles, MapperLockInputs) :
           lock("app", c[1], c[2].usage, c[2].accessRegion, c[2].acquireFence,
                c[2].fenceOk, c[2].flushOk)
    \/ \E h \in OpHandles : unlock("app", h)
    \/ \E h \in OpHandles : flushLockedBuffer("app", h)
    \/ \E c \in Calls(OpHandles, BOOLEAN) : rereadLockedBuffer("app", c[1], c[2])
    \/ \E h \in OpHandles, name \in MetadataNames : getMetadata("app", h, name, "WIDTH")
    \/ \E c \in Calls(OpHandles, MetadataTypeInputs) :
           getStandardMetadata("app", c[1], c[2])
    \/ \E h \in OpHandles, name \in MetadataNames :
           setMetadata("app", h, name, "DATASPACE", [header |-> "ok", value |-> 1])
    \/ \E c \in Calls(OpHandles, SetInputs) :
           setStandardMetadata("app", c[1], c[2].type, c[2].payload)
    \/ \E h \in OpHandles : dumpBuffer("app", h)
    \/ \E h \in OpHandles : getReservedRegion("app", h)

SpecMapper == MapperInit /\ [][NextMapper]_vars

(***************************************************************************)
(* One process locking and unlocking, with every kind of access region,    *)
(* usage and fence.                                                        *)
(***************************************************************************)
LockRegions ==
    {<<l, 0, r, MaxHeight>> : l \in Coords, r \in Coords}
    \cup {<<0, t, MaxWidth, b>> : t \in Coords, b \in Coords}
    \cup {<<0, 0, 0, 0>>}

LockUsages == {{}, {1}, {2}, {5}, {1, 5}, {8}, {1, 8}, {1, 5, 8}}

LockInputs ==
    {LockInput({1, 5}, r, -1, TRUE, TRUE) : r \in LockRegions}
    \cup {LockInput(u, WholeRegion, -1, TRUE, TRUE) : u \in LockUsages}
    \cup {LockInput({1, 5}, WholeRegion, f[1], f[2], f[3]) :
             f \in {<<3, TRUE, TRUE>>, <<3, FALSE, TRUE>>, <<3, TRUE, FALSE>>,
                    <<-1, TRUE, FALSE>>}}

NextLock ==
    \/ \E b \in {1, 2} : importBuffer("app", RawHandle(b), "ok")
    \/ \E a \in Addrs : freeBuffer("app", BufferHandle(a))
    \/ \E c \in Calls({RawHandle(1)}, LockInputs) :
           lock("app", c[1], c[2].usage, c[2].accessRegion, c[2].acquireFence,
                c[2].fenceOk, c[2].flushOk)
    \/ \E a \in Addrs : unlock("app", BufferHandle(a))

SpecLock == MapperInit /\ [][NextLock]_vars

(***************************************************************************)
(* What an allocate2 call may hold of the allocator process and the host.  *)
(***************************************************************************)
HeldBy(id) ==
    (openFds \cap {BufferFdOf(id), RefcountFdOf(id)} # {})
    \/ GuestPtrOf(id) \in mapped
    \/ (id \in hostColorBuffers /\ id \notin delivered)

Returned(t, status) ==
    /\ call[t].op = "allocate2"
    /\ call[t].status = status

\* the call of thread t returns status in this step
Returns(t, status) ==
    /\ call[t] # call'[t]
    /\ call'[t].op = "allocate2"
    /\ call'[t].status = status

NothingAllocated ==
    UNCHANGED <<mBufferIdGenerator, session, openFds, mapped, hostColorBuffers,
                delivered, allocLog>>

(***************************************************************************)
(* C1.  When the allocation of the buffer at index k >= 1 fails inside an  *)
(* allocate2 call, the call returns NO_RESOURCES with every buffer it had  *)
(* allocated unallocated: none of their fds is open, none of their regions *)
(* is mapped, none of their color buffers is alive at the host.            *)
(***************************************************************************)
C1_FailedBatchLeaksNothing ==
    \A t \in Threads :
        Returned(t, "NO_RESOURCES") => \A id \in call[t].allocated : ~HeldBy(id)

(***************************************************************************)
(* C2.  allocate2 returns BAD_DESCRIPTOR whenever count <= 0, width <= 0,  *)
(* height <= 0, layerCount # 1, reservedSize < 0, additionalOptions is not *)
(* empty or usage has one of the bits 10, 13, 19, 21; the call then enters *)
(* no host session, allocates nothing and leaves mBufferIdGenerator alone. *)
(***************************************************************************)
BadDescriptor(desc, count) ==
    \/ count <= 0
    \/ desc.width <= 0
    \/ desc.height <= 0
    \/ desc.layerCount # 1
    \/ desc.reservedSize < 0
    \/ desc.additionalOptions # 0
    \/ desc.usage \cap {10, 13, 19, 21} # {}

C2_BadDescriptor ==
    /\ [](\A t \in Threads :
            call[t].op = "allocate2" /\ BadDescriptor(call[t].desc, call[t].count)
                => call[t].status = "BAD_DESCRIPTOR")
    /\ [][\A t \in Threads : Returns(t, "BAD_DESCRIPTOR") => NothingAllocated]_vars

C2_Witness ==
    /\ Returned(1, "BAD_DESCRIPTOR")
    /\ call[1].desc.usage \cap {10, 13, 19, 21} # {}
    /\ call[1].count = 1
    /\ call[1].desc.width > 0 /\ call[1].desc.height > 0
    /\ mBufferIdGenerator > 0

(***************************************************************************)
(* C3.  For a descriptor that passes the BAD_DESCRIPTOR checks, allocate2  *)
(* returns UNSUPPORTED when the format is not one of the 14 formats of the *)
(* format table, or is RGB_888, RAW16, Y16, BLOB or YCRCB_420_SP with one  *)
(* of the usage bits GPU_TEXTURE, GPU_RENDER_TARGET, COMPOSER_OVERLAY,     *)
(* COMPOSER_CLIENT_TARGET, GPU_DATA_BUFFER; nothing is allocated and       *)
(* mBufferIdGenerator is unchanged.                                        *)
(***************************************************************************)
TableFormats ==
    {"RGBA_8888", "RGBX_8888", "BGRA_8888", "RGB_888", "RGB_565", "RGBA_FP16",
     "RGBA_1010102", "RAW16", "Y16", "BLOB", "YCRCB_420_SP", "YV12",
     "YCBCR_420_888", "YCBCR_P010"}

Unsupported(desc) ==
    \/ desc.format \notin TableFormats
    \/ /\ desc.format \in {"RGB_888", "RAW16", "Y16", "BLOB", "YCRCB_420_SP"}
       /\ desc.usage \cap {8, 9, 11, 12, 24} # {}

C3_Unsupported ==
    /\ [](\A t \in Threads :
            /\ call[t].op = "allocate2"
            /\ ~BadDescriptor(call[t].desc, call[t].count)
            /\ Unsupported(call[t].desc)
            => call[t].status = "UNSUPPORTED")
    /\ [][\A t \in Threads : Returns(t, "UNSUPPORTED") => NothingAllocated]_vars

C3_Witness ==
    /\ Returned(1, "UNSUPPORTED")
    /\ call[1].desc.format = "BLOB"
    /\ call[1].desc.usage = {1, 24}
    /\ mBufferIdGenerator > 0

(***************************************************************************)
(* C4.  isSupported returns true exactly when allocate2 with count = 1 on  *)
(* the same descriptor is rejected with neither BAD_DESCRIPTOR nor         *)
(* UNSUPPORTED; so an allocate2 call for one buffer of a descriptor that   *)
(* isSupported accepts returns, unless the host runs out of resources, ok  *)
(* with one handle of the requested format.                                *)
(***************************************************************************)
C4_IsSupportedAgrees ==
    \A t \in Threads :
        /\ call[t].op = "isSupported" =>
               (call[t].status = "TRUE"
                   <=> allocate2Check(call[t].desc, 1)
                           \notin {"BAD_DESCRIPTOR", "UNSUPPORTED"})
        /\ /\ call[t].op = "allocate2"
           /\ call[t].count = 1
           /\ isSupportedImpl(call[t].desc)
           /\ call[t].status \notin {"PENDING", "NO_RESOURCES"}
           => /\ call[t].status = "OK"
              /\ Len(call[t].buffers) = 1
              /\ call[t].buffers[1].format = call[t].desc.format

C4_Witness ==
    /\ call[1].op = "isSupported"
    /\ call[1].status = "TRUE"
    /\ call[1].desc.format = "YCRCB_420_SP"
    /\ call[1].desc.usage = {1, 15}

(***************************************************************************)
(* C5.  Across every interleaving of the allocate2 calls the binder        *)
(* threads serve, the bufferIDs written into the external metadata are     *)
(* strictly increasing in the order the buffers are allocated.             *)
(***************************************************************************)
C5_BufferIdsIncrease ==
    \A i, j \in 1..Len(allocLog) : i < j => allocLog[i] < allocLog[j]

\* one thread has done ++mBufferIdGenerator for both buffers of its batch,
\* inside its session, while the other waits for the connection
C5_Witness ==
    /\ Len(allocLog) >= 2
    /\ thread[1].pc = "finish"
    /\ Cardinality(call[1].allocated) = 2
    /\ thread[2].pc = "session"

(***************************************************************************)
(* Steps of the mapper: the call that lastOp' records is made in this      *)
(* step, on the state before it.                                           *)
(***************************************************************************)
MapperCall(ops) ==
    /\ mapperVars' # mapperVars
    /\ lastOp'.op \in ops

\* the handle passed is an imported one, as the call finds it
OnImported ==
    /\ lastOp'.h.kind = "ptr"
    /\ handles[lastOp'.proc][lastOp'.h.ref].state = "imported"

\* the handle passed was freed, or importBuffer never returned it
OnInvalid ==
    \/ lastOp'.h.kind \in {"null", "malformed", "raw"}
    \/ /\ lastOp'.h.kind = "ptr"
       /\ handles[lastOp'.proc][lastOp'.h.ref].state = "freed"

PassedSlot == handles[lastOp'.proc][lastOp'.h.ref]

NoEffect ==
    /\ lastOp'.hostCalls = <<>>
    /\ UNCHANGED <<buffers, mImportedBuffers, handles>>

HandleOps ==
    {"freeBuffer", "getTransportSize", "lock", "unlock", "flushLockedBuffer",
     "rereadLockedBuffer", "getMetadata", "getStandardMetadata", "setMetadata",
     "setStandardMetadata", "dumpBuffer", "getReservedRegion"}

(***************************************************************************)
(* C6, as claimed.  Every mapper operation called with a handle that was   *)
(* freed, or that importBuffer never returned, returns BAD_BUFFER, issues  *)
(* no host call and changes no state.                                      *)
(***************************************************************************)
C6_InvalidHandleIsBadBuffer ==
    [][MapperCall(HandleOps) /\ OnInvalid
           => lastOp'.result = "BAD_BUFFER" /\ NoEffect]_vars

(***************************************************************************)
(* C6, amended.  Called with a handle that was freed (and that no later    *)
(* importBuffer returned again) or that importBuffer never returned, the   *)
(* operations that look the handle up in the imported set return           *)
(* BAD_BUFFER: freeBuffer, lock, unlock, flushLockedBuffer,                *)
(* rereadLockedBuffer, getStandardMetadata, setStandardMetadata,           *)
(* dumpBuffer, getReservedRegion, and getMetadata and setMetadata when the *)
(* metadata type name is the standard one.  getMetadata and setMetadata    *)
(* with another type name return UNSUPPORTED.  getTransportSize does not   *)
(* look the handle up: it returns NONE for a well-formed handle that is    *)
(* not imported and BAD_BUFFER for a null or malformed one, and for a      *)
(* freed one it reads freed memory and returns either.  None of these      *)
(* calls issues a host call or changes state.                              *)
(***************************************************************************)
C6_InvalidHandle ==
    [][MapperCall(HandleOps) /\ OnInvalid
           => /\ NoEffect
              /\ CASE lastOp'.op = "getTransportSize" ->
                          CASE lastOp'.h.kind = "raw" -> lastOp'.result = "NONE"
                            [] lastOp'.h.kind = "ptr" ->
                                   lastOp'.result \in {"NONE", "BAD_BUFFER"}
                            [] OTHER -> lastOp'.result = "BAD_BUFFER"
                   [] /\ lastOp'.op \in {"getMetadata", "setMetadata"}
                      /\ lastOp'.args.name # kStandardMetadataTypeStr ->
                          lastOp'.result = "UNSUPPORTED"
                   [] OTHER -> lastOp'.result = "BAD_BUFFER"]_vars

\* lock was called with a freed handle while another handle is imported
C6_Witness ==
    /\ lastOp.op = "lock"
    /\ lastOp.h.kind = "ptr"
    /\ handles[lastOp.proc][lastOp.h.ref].state = "freed"
    /\ lastOp.result = "BAD_BUFFER"
    /\ mImportedBuffers[lastOp.proc] # {}

(***************************************************************************)
(* C7, as claimed.  Only unlock takes an imported handle out of a locked   *)
(* state: every other mapper operation leaves a locked handle imported and *)
(* locked with the same lockedUsage, and a handle becomes freed only when  *)
(* it is imported and not locked.                                          *)
(***************************************************************************)
Locked(slot) == slot.state = "imported" /\ slot.lockedUsage # {}

C7_OnlyUnlockLeavesLocked ==
    [][\A p \in Procs, a \in Addrs :
          /\ Locked(handles[p][a]) /\ ~MapperCall({"unlock"})
                 => handles'[p][a] = handles[p][a]
          /\ handles[p][a].state # "freed" /\ handles'[p][a].state = "freed"
                 => handles[p][a].state = "imported" /\ ~Locked(handles[p][a])]_vars

(***************************************************************************)
(* C7, amended.  Only unlock and freeBuffer, called with that handle, take *)
(* an imported handle out of a locked state: unlock leaves it imported and *)
(* unlocked, freeBuffer frees it, after the flush to the host when it      *)
(* holds a CPU-write lock on a GPU-backed buffer.  Every other mapper      *)
(* operation leaves a locked handle imported and locked with the same      *)
(* lockedUsage.  A handle becomes freed only by freeBuffer, from imported, *)
(* locked or not.                                                          *)
(***************************************************************************)
C7_UnlockOrFreeLeavesLocked ==
    [][\A p \in Procs, a \in Addrs :
          LET slot == handles[p][a]
              on == lastOp'.proc = p /\ lastOp'.h = BufferHandle(a)
          IN  /\ Locked(slot) /\ ~(MapperCall({"unlock", "freeBuffer"}) /\ on)
                     => handles'[p][a] = slot
              /\ Locked(slot) /\ MapperCall({"unlock"}) /\ on
                     => /\ handles'[p][a] = [slot EXCEPT !.lockedUsage = {}]
                        /\ lastOp'.result = "NONE"
              /\ Locked(slot) /\ MapperCall({"freeBuffer"}) /\ on
                     => /\ handles'[p][a].state = "freed"
                        /\ lastOp'.result = "NONE"
                        /\ lastOp'.hostCalls =
                               IF /\ buffers[slot.buf].hostHandle # 0
                                  /\ slot.lockedUsage \cap kCPU_WRITE_MASK # {}
                               THEN <<"bindDmaDirectly", "rcUpdateColorBufferDMA">>
                               ELSE <<>>
              /\ slot.state # "freed" /\ handles'[p][a].state = "freed"
                     => slot.state = "imported" /\ MapperCall({"freeBuffer"}) /\ on]_vars

\* a handle with a CPU-write lock on a GPU-backed buffer was freed
C7_Witness ==
    /\ lastOp.op = "freeBuffer"
    /\ lastOp.result = "NONE"
    /\ lastOp.hostCalls = <<"bindDmaDirectly", "rcUpdateColorBufferDMA">>
    /\ handles[lastOp.proc][lastOp.h.ref].state = "freed"

(***************************************************************************)
(* C8.  lock on an imported handle whose lockedUsage is not zero returns   *)
(* BAD_BUFFER whatever the usage, the access region and the fence are,     *)
(* issues no host call and leaves lockedUsage as it is.                    *)
(***************************************************************************)
C8_LockOnLocked ==
    [][MapperCall({"lock"}) /\ OnImported /\ PassedSlot.lockedUsage # {}
           => /\ lastOp'.result = "BAD_BUFFER"
              /\ NoEffect]_vars

\* a locked handle was locked again, with a region outside the buffer
C8_Witness ==
    /\ lastOp.op = "lock"
    /\ lastOp.h.kind = "ptr"
    /\ Locked(handles[lastOp.proc][lastOp.h.ref])
    /\ lastOp.args.accessRegion[1] < 0
    /\ lastOp.result = "BAD_BUFFER"

(***************************************************************************)
(* C9, as claimed.  lock on an imported, unlocked handle returns BAD_VALUE *)
(* and leaves the handle unlocked for every access region that is not      *)
(* contained in [0, width] x [0, height] or that has left = right or       *)
(* top = bottom.                                                           *)
(***************************************************************************)
NotContained(r, metadata) ==
    \/ \E x \in {r[1], r[3]} : x < 0 \/ x > metadata.width
    \/ \E y \in {r[2], r[4]} : y < 0 \/ y > metadata.height

LockedOnUnlocked == MapperCall({"lock"}) /\ OnImported /\ PassedSlot.lockedUsage = {}

RegionRefused ==
    /\ lastOp'.result = "BAD_VALUE"
    /\ handles'[lastOp'.proc][lastOp'.h.ref].lockedUsage = {}

ValidRegion(r, metadata) ==
    /\ 0 <= r[1] /\ r[1] < r[3] /\ r[3] <= metadata.width
    /\ 0 <= r[2] /\ r[2] < r[4] /\ r[4] <= metadata.height

C10_LockGrantsCpuUsage ==
    [][/\ LockedOnUnlocked
       /\ ValidRegion(lastOp'.args.accessRegion, buffers[PassedSlot.buf].metadata)
       => LET granted == lastOp'.args.usage \cap buffers[PassedSlot.buf].usage
                             \cap (0..7)
              after == handles'[lastOp'.proc][lastOp'.h.ref]
          IN  /\ lastOp'.result = "NONE"
                     => /\ granted # {}
                        /\ after.lockedUsage = granted
                        /\ lastOp'.out = [data |-> PassedSlot.bufferPtr]
                        /\ after.bufferPtr = PassedSlot.bufferPtr
              /\ granted = {}
                     => /\ lastOp'.result # "NONE"
                        /\ after = PassedSlot]_vars

\* a lock for reading and writing of a buffer allocated for reading only
C10_Witness ==
    /\ lastOp.op = "lock"
    /\ lastOp.result = "NONE"
    /\ lastOp.args.usage = {1, 5}
    /\ lastOp.h.kind = "ptr"
    /\ buffers[handles[lastOp.proc][lastOp.h.ref].buf].usage = {1}
    /\ handles[lastOp.proc][lastOp.h.ref].lockedUsage = {1}

(***************************************************************************)
(* C11.  unlock on an imported handle whose lockedUsage is zero returns    *)
(* BAD_BUFFER and issues no host call; unlock on a locked handle succeeds, *)
(* sets lockedUsage to zero and returns -1 as the release fence.           *)
(***************************************************************************)
C11_Unlock ==
    [][MapperCall({"unlock"}) /\ OnImported
           => IF PassedSlot.lockedUsage = {}
              THEN /\ lastOp'.result = "BAD_BUFFER"
                   /\ NoEffect
              ELSE /\ lastOp'.result = "NONE"
                   /\ lastOp'.out = [releaseFence |-> -1]
                   /\ handles'[lastOp'.proc][lastOp'.h.ref] =
                          [PassedSlot EXCEPT !.lockedUsage = {}]]_vars

\* an imported handle that is not locked was unlocked
C11_Witness ==
    /\ lastOp.op = "unlock"
    /\ lastOp.h.kind = "ptr"
    /\ handles[lastOp.proc][lastOp.h.ref].state = "imported"
    /\ lastOp.result = "BAD_BUFFER"

(***************************************************************************)
(* C12.  flushLockedBuffer succeeds only on a handle that holds a          *)
(* CPU-write bit and rereadLockedBuffer only on one that holds a CPU-read  *)
(* bit; without the bit each returns BAD_BUFFER and issues no host call.   *)
(* Neither changes lockedUsage, whether it succeeds or fails.              *)
(***************************************************************************)
C12_FlushRereadGated ==
    [][MapperCall({"flushLockedBuffer", "rereadLockedBuffer"}) /\ OnImported
           => LET mask == IF lastOp'.op = "flushLockedBuffer"
                          THEN CPU_WRITE_MASK ELSE CPU_READ_MASK
              IN  /\ handles' = handles
                  /\ lastOp'.result = "NONE" => PassedSlot.lockedUsage \cap mask # {}
                  /\ PassedSlot.lockedUsage \cap mask = {}
                         => lastOp'.result = "BAD_BUFFER" /\ lastOp'.hostCalls = <<>>]_vars

\* a handle locked for reading only was flushed
C12_Witness ==
    /\ lastOp.op = "flushLockedBuffer"
    /\ lastOp.h.kind = "ptr"
    /\ handles[lastOp.proc][lastOp.h.ref].lockedUsage = {1}
    /\ lastOp.result = "BAD_BUFFER"

(***************************************************************************)
(* C16.  A lock on an imported, unlocked handle that passes the checks of  *)
(* its arguments and then fails, because waiting for the acquire fence     *)
(* fails or because the host's colorBufferCacheFlush returns a negative    *)
(* result, returns NO_RESOURCES and leaves the handle as it was, unlocked; *)
(* the same lock with a fence and a host that do not fail succeeds, so a   *)
(* later lock on the handle can succeed.                                   *)
(***************************************************************************)
ArgumentsValid ==
    /\ LockedOnUnlocked
    /\ ValidRegion(lastOp'.args.accessRegion, buffers[PassedSlot.buf].metadata)
    /\ lastOp'.args.usage \cap buffers[PassedSlot.buf].usage \cap (0..7) # {}

FenceFails == lastOp'.args.acquireFence >= 0 /\ ~lastOp'.args.fenceOk

CacheFlushFails == buffers[PassedSlot.buf].hostHandle # 0 /\ ~lastOp'.args.flushOk

C16_FailedLockLeavesUnlocked ==
    [][ArgumentsValid
           => IF FenceFails \/ CacheFlushFails
              THEN /\ lastOp'.result = "NO_RESOURCES"
                   /\ lastOp'.hostCalls = IF FenceFails THEN <<>>
                                          ELSE <<"rcColorBufferCacheFlush">>
                   /\ UNCHANGED <<buffers, mImportedBuffers, handles>>
              ELSE /\ lastOp'.result = "NONE"
                   /\ handles'[lastOp'.proc][lastOp'.h.ref].lockedUsage # {}]_vars

\* the host's cache flush failed in a lock of an unlocked handle
C16_Witness ==
    /\ lastOp.op = "lock"
    /\ lastOp.result = "NO_RESOURCES"
    /\ lastOp.hostCalls = <<"rcColorBufferCacheFlush">>
    /\ lastOp.h.kind = "ptr"
    /\ handles[lastOp.proc][lastOp.h.ref].state = "imported"
    /\ handles[lastOp.proc][lastOp.h.ref].lockedUsage = {}

(***************************************************************************)
(* C17, as claimed.  Every successful allocate2 returns the stride         *)
(* planeLayout[0].strideInBytes / planeLayout[0].sampleIncrementInBytes    *)
(* when the format has one plane and 0 when it has two or three.           *)
(***************************************************************************)
Succeeded(t) == call[t].op = "allocate2" /\ call[t].status = "OK"

\* the row of plane 0 of a format in pixels: the width in bytes, rounded up
\* to the plane's alignment, over the sample size
RowInPixels(desc) ==
    LET pl == FormatTable(desc.format).planes[1]
        alignment == pl[1]
        sample == pl[2]
        bytes == ((desc.width * sample + alignment - 1) \div alignment) * alignment
    IN  bytes \div sample

PlaneCount(desc) == Len(FormatTable(desc.format).planes)

C17_StrideByPlaneCount ==
    \A t \in Threads :
        Succeeded(t) =>
            call[t].stride = IF PlaneCount(call[t].desc) = 1
                             THEN RowInPixels(call[t].desc) ELSE 0

(***************************************************************************)
(* C17, amended.  Every successful allocate2 returns the stride            *)
(* planeLayout[0].strideInBytes / planeLayout[0].sampleIncrementInBytes    *)
(* when the usage has a CPU read or write bit and the format has one       *)
(* plane; it returns 0 when the format has two or three planes and when    *)
(* the usage has no CPU bit, in which case no plane layout is recorded.    *)
(* The handles carry the same stride.                                      *)
(***************************************************************************)
C17_Stride ==
    \A t \in Threads :
        Succeeded(t) =>
            LET desc == call[t].desc
                cpu == desc.usage \cap (0..7) # {}
                cbs == call[t].buffers
            IN  /\ call[t].stride = IF cpu /\ PlaneCount(desc) = 1
                                    THEN RowInPixels(desc) ELSE 0
                /\ \A k \in 1..Len(cbs) :
                       /\ cbs[k].stride = call[t].stride
                       /\ cbs[k].metadata.planeLayoutSize =
                              IF cpu THEN PlaneCount(desc) ELSE 0
                       /\ cpu /\ PlaneCount(desc) = 1 =>
                              call[t].stride =
                                  cbs[k].metadata.planeLayout[1].strideInBytes
                                      \div cbs[k].metadata.planeLayout[1].sampleIncrementInBytes

\* a buffer of a one-plane format was allocated for the GPU only
C17_Witness ==
    /\ Succeeded(1)
    /\ call[1].desc.format = "RGBA_8888"
    /\ call[1].desc.usage = {8}
    /\ call[1].desc.width = MaxWidth
    /\ call[1].stride = 0

(***************************************************************************)
(* C18.  Every handle allocate2 returns has a refcount fd when it has a    *)
(* host handle (hostHandle # 0 implies hostHandleRefcountFd >= 0), has a   *)
(* buffer fd when it has a mapped region (mmapedSize > 0 implies           *)
(* bufferFd >= 0), and has its external metadata at the buffer size        *)
(* rounded up to 16 bytes.                                                 *)
(***************************************************************************)
C18_HandleInvariants ==
    \A t \in Threads :
        Succeeded(t) =>
            \A k \in 1..Len(call[t].buffers) :
                LET cb == call[t].buffers[k]
                IN  /\ cb.hostHandle # 0 => cb.hostHandleRefcountFd >= 0
                    /\ cb.mmapedSize > 0 => cb.bufferFd >= 0
                    /\ cb.externalMetadataOffset = ((cb.bufferSize + 15) \div 16) * 16
                    /\ cb.externalMetadataOffset - cb.bufferSize \in 0..15

\* a GPU-backed buffer whose size is no multiple of 16 was returned
C18_Witness ==
    /\ Succeeded(1)
    /\ Len(call[1].buffers) = 1
    /\ call[1].buffers[1].hostHandle # 0
    /\ call[1].buffers[1].mmapedSize > 0
    /\ call[1].buffers[1].bufferSize % 16 # 0

(***************************************************************************)
(* The request allocate2 builds from a descriptor it accepts (lines        *)
(* 186-484), over every format of the table and over widths and heights    *)
(* that are small, odd, those of a video frame, and large enough for the   *)
(* 32-bit products of initPlaneLayout to wrap.                             *)
(***************************************************************************)
MaxInt32 == UInt32Range \div 2 - 1

LayoutSizes ==
    {<<1, 1>>, <<2, 2>>, <<3, 5>>, <<17, 3>>, <<640, 480>>,
     <<UInt32Range \div 4, 1>>, <<4096, 4096>>, <<MaxInt32, 1>>}

LayoutInputs ==
    {Descriptor(sz[1], sz[2], f, 1, {1, 5}, 0, 0) :
        sz \in LayoutSizes, f \in GpuFormats \cup CpuOnlyFormats}
    \cup {Descriptor(sz[1], sz[2], f, 1, {8}, 0, 0) : sz \in LayoutSizes, f \in GpuFormats}

LayoutInit ==
    /\ mBufferIdGenerator = 0
    /\ session = 0
    /\ thread = [t \in Threads |-> IdleThread]
    /\ openFds = {}
    /\ mapped = {}
    /\ hostColorBuffers = {}
    /\ delivered = {}
    /\ allocLog = <<>>
    /\ MapperIdle
    /\ \E desc \in LayoutInputs :
           call = [t \in Threads |->
                      IF t = 1 THEN [NoCall EXCEPT !.op = "allocate2", !.desc = desc,
                                                   !.count = 1]
                      ELSE NoCall]

a2Request(t) ==
    /\ call[t].op = "allocate2"
    /\ call[t].status = "NONE"
    /\ allocate2Check(call[t].desc, call[t].count) = "OK"
    /\ LET req == AllocationRequest(call[t].desc)
       IN  call' = [call EXCEPT ![t].status = "REQUEST",
                                ![t].stride = req.stride0,
                                ![t].buffers = <<req>>]
    /\ UNCHANGED <<mBufferIdGenerator, session, thread, openFds, mapped,
                   hostColorBuffers, delivered, allocLog>>
    /\ UNCHANGED <<mapperVars, memVars>>

NextLayout == a2Request(1)

SpecLayout == LayoutInit /\ [][NextLayout]_vars

(***************************************************************************)
(* C19.  For every format with one plane, of row alignment A and sample    *)
(* size S, and every width and height allocate2 accepts, plane 0 has       *)
(* offsetInBytes 0, strideInBytes width * S rounded up to a multiple of A, *)
(* and totalSizeInBytes strideInBytes * height.                            *)
(***************************************************************************)
Requested(t) == call[t].op = "allocate2" /\ call[t].status = "REQUEST"

C19_SinglePlaneLayout ==
    \A t \in Threads :
        Requested(t) /\ PlaneCount(call[t].desc) = 1 =>
            LET desc == call[t].desc
                pl == FormatTable(desc.format).planes[1]
                A == pl[1]
                S == pl[2]
                rounded == ((desc.width * S + A - 1) \div A) * A
                plane == call[t].buffers[1].plane[1]
            IN  /\ plane.offsetInBytes = 0
                /\ plane.strideInBytes = rounded
                /\ plane.totalSizeInBytes = rounded * desc.height

(***************************************************************************)
(* C20.  For every format with two or three planes (YCRCB_420_SP, YV12,    *)
(* YCBCR_420_888, YCBCR_P010) and every image of less than 2^32 bytes the  *)
(* planes lie back to back in offset order: plane 0 is at offset 0 and     *)
(* each next plane at the offset plus the total size of the one before;    *)
(* the chroma planes have subsampling shift 1 and are sized from width / 2 *)
(* and height / 2; the buffer size of a buffer with a CPU image is the end *)
(* of the last plane.  For YV12 640 x 480 the strides are 640, 320, 320,   *)
(* plane 1 is at offset 640 * 480, and the planes hold Y, CR, CB.          *)
(***************************************************************************)
PlaneEnd(plane) == plane.offsetInBytes + plane.totalSizeInBytes

BadErase(imported, cb) == [n |-> 1, left |-> imported \ {cb}]

erase(imported, cb) ==
    [n |-> IF cb \in imported THEN 1 ELSE 0, left |-> imported \ {cb}]

\* getHostConnectionSession: the session is entered when no other thread is
\* inside one
BadGetHostConnectionSession(owner, t) == TRUE

getHostConnectionSession(owner, t) == HostConnectionSessionEnter(owner, t)

MtSlot(t) == handles[MtProc][mthread[t].h.ref]

MtReturn(t, result, out, calls) ==
    /\ mthread' = [mthread EXCEPT ![t] = IdleCall]
    /\ lastOp' = Op(mthread[t].op, MtProc, mthread[t].h, [usage |-> mthread[t].usage],
                    result, out, calls)

MtGoes(t, pc, next, calls) ==
    /\ mthread' = [mthread EXCEPT ![t].pc = pc, ![t].next = next,
                                  ![t].hostCalls = calls]
    /\ UNCHANGED lastOp

\* a thread calls lock, unlock, flushLockedBuffer, rereadLockedBuffer or
\* freeBuffer
mtCall(t, op, buffer, usage) ==
    /\ mthread[t].pc = "idle"
    /\ Known(MtProc, buffer)
    /\ mthread' = [mthread EXCEPT ![t] =
           [IdleCall EXCEPT !.pc = "validate", !.op = op, !.h = buffer,
                            !.usage = usage]]
    /\ UNCHANGED <<allocVars, mapperVars, hostConn, guestMem, hostMem>>

\* validateCb and the checks of the handle's fields that follow it
mtValidate(t) ==
    /\ mthread[t].pc = "validate"
    /\ mthread[t].op # "freeBuffer"
    /\ lock_guard(mImportedBuffersMtx)
    /\ LET m == mthread[t]
           Failed(e) == MtReturn(t, e, NoOut, <<>>)
       IN  IF ~validateCb(mImportedBuffers[MtProc], m.h) THEN Failed("BAD_BUFFER")
           ELSE
           LET cb == CbOf(MtProc, m.h)
               checks == lockChecks(cb.lockedUsage, cb.usage, cb.metadata, m.usage,
                                    WholeRegion)
           IN  CASE m.op = "lock" ->
                      IF checks # "NONE" THEN Failed(checks)
                      ELSE IF cb.hostHandle # 0 THEN MtGoes(t, "rdEnter", "lkSet", <<>>)
                      ELSE MtGoes(t, "lkSet", "none", <<>>)
                 [] m.op = "unlock" ->
                      IF cb.lockedUsage = {} THEN Failed("BAD_BUFFER")
                      ELSE IF cb.hostHandle # 0 /\ cb.lockedUsage \cap kCPU_WRITE_MASK # {}
                      THEN MtGoes(t, "flEnter", "ulClear", <<>>)
                      ELSE MtGoes(t, "ulClear", "none", <<>>)
                 [] m.op = "flushLockedBuffer" ->
                      IF cb.lockedUsage \cap kCPU_WRITE_MASK = {} THEN Failed("BAD_BUFFER")
                      ELSE IF cb.hostHandle # 0 THEN MtGoes(t, "flEnter", "ret", <<>>)
                      ELSE MtReturn(t, "NONE", NoOut, <<>>)
                 [] m.op = "rereadLockedBuffer" ->
                      IF cb.lockedUsage \cap kCPU_READ_MASK = {} THEN Failed("BAD_BUFFER")
                      ELSE IF cb.hostHandle # 0 THEN MtGoes(t, "rdEnter", "ret", <<>>)
                      ELSE MtReturn(t, "NONE", NoOut, <<>>)
                 [] m.op = "getStandardMetadata" ->
                      LET got == getStandardMetadataImpl(cb, cb.metadata, "WIDTH")
                      IN  MtReturn(t, got.result, got.out, <<>>)
    /\ UNCHANGED <<allocVars, buffers, mImportedBuffers, handles, hostConn, guestMem,
                   hostMem>>

\* freeBuffer, its locked part: the handle leaves mImportedBuffers, or the
\* call fails
fbErase(t) ==
    /\ mthread[t].pc = "validate"
    /\ mthread[t].op = "freeBuffer"
    /\ lock_guard(mImportedBuffersMtx)
    /\ LET m == mthread[t]
           erased == erase(mImportedBuffers[MtProc], m.h.ref)
       IN  IF m.h.kind # "ptr" \/ erased.n = 0
           THEN /\ MtReturn(t, "BAD_BUFFER", NoOut, <<>>)
                /\ UNCHANGED <<mImportedBuffers, handles>>
           ELSE /\ mImportedBuffers' = [mImportedBuffers EXCEPT ![MtProc] = erased.left]
                /\ handles' = [handles EXCEPT ![MtProc][m.h.ref].state = "erased"]
                /\ LET cb == CbOf(MtProc, m.h)
                   IN  IF cb.hostHandle # 0 /\ cb.lockedUsage \cap kCPU_WRITE_MASK # {}
                       THEN MtGoes(t, "flEnter", "fbRelease", <<>>)
                       ELSE MtGoes(t, "fbRelease", "none", <<>>)
    /\ UNCHANGED <<allocVars, buffers, hostConn, guestMem, hostMem>>

\* freeBuffer, its last part: memoryUnmap, native_handle_close and
\* native_handle_delete
fbRelease(t) ==
    /\ mthread[t].pc = "fbRelease"
    /\ handles' = [handles EXCEPT ![MtProc][mthread[t].h.ref] =
           [state |-> "freed", buf |-> @.buf, lockedUsage |-> {}, bufferPtr |-> 0]]
    /\ MtReturn(t, "NONE", NoOut, mthread[t].hostCalls)
    /\ UNCHANGED <<allocVars, buffers, mImportedBuffers, hostConn, guestMem, hostMem>>

\* readFromHost and flushToHost enter the session of the connection
mtEnter(t) ==
    /\ mthread[t].pc \in {"rdEnter", "flEnter"}
    /\ getHostConnectionSession(hostConn, t)
    /\ hostConn' = t
    /\ mthread' = [mthread EXCEPT ![t].pc = IF @ = "rdEnter" THEN "rdHost" ELSE "flHost"]
    /\ UNCHANGED <<allocVars, mapperVars, guestMem, hostMem>>

\* where a call goes on after its host calls
MtAfterHost(t, calls) ==
    IF mthread[t].next = "ret" THEN MtReturn(t, "NONE", NoOut, calls)
    ELSE MtGoes(t, mthread[t].next, "none", calls)

\* readFromHost inside the session, and the session's end
mtRead(t, flushOk) ==
    /\ mthread[t].pc = "rdHost"
    /\ hostConn' = 0
    /\ LET read == readFromHost(CbOf(MtProc, mthread[t].h), flushOk)
           b == MtSlot(t).buf
       IN  IF read.result # "NONE"
           THEN /\ MtReturn(t, read.result, NoOut, read.hostCalls)
                /\ UNCHANGED guestMem
           ELSE /\ guestMem' = [guestMem EXCEPT ![b] = hostMem[b]]
                /\ MtAfterHost(t, read.hostCalls)
    /\ UNCHANGED <<allocVars, buffers, mImportedBuffers, handles, hostMem>>

BadMtFlush(t) ==
    /\ mthread[t].pc = "flHost"
    /\ hostMem' = [hostMem EXCEPT ![MtSlot(t).buf] = guestMem[MtSlot(t).buf]]
    /\ MtAfterHost(t, flushToHost(CbOf(MtProc, mthread[t].h)))
    /\ UNCHANGED <<allocVars, buffers, mImportedBuffers, handles, guestMem, hostConn>>

\* flushToHost inside the session, and the session's end
mtFlush(t) ==
    /\ mthread[t].pc = "flHost"
    /\ hostConn' = 0
    /\ hostMem' = [hostMem EXCEPT ![MtSlot(t).buf] = guestMem[MtSlot(t).buf]]
    /\ MtAfterHost(t, flushToHost(CbOf(MtProc, mthread[t].h)))
    /\ UNCHANGED <<allocVars, buffers, mImportedBuffers, handles, guestMem>>

\* lock, its end: cb->lockedUsage = cpuUsage
mtSet(t) ==
    /\ mthread[t].pc = "lkSet"
    /\ LET cb == CbOf(MtProc, mthread[t].h)
       IN  /\ handles' = [handles EXCEPT ![MtProc][mthread[t].h.ref].lockedUsage =
                              cpuUsage(mthread[t].usage, cb.usage)]
           /\ MtReturn(t, "NONE", [data |-> cb.bufferPtr], mthread[t].hostCalls)
    /\ UNCHANGED <<allocVars, buffers, mImportedBuffers, hostConn, guestMem, hostMem>>

\* unlock, its end: cb->lockedUsage = 0
mtClear(t) ==
    /\ mthread[t].pc = "ulClear"
    /\ handles' = [handles EXCEPT ![MtProc][mthread[t].h.ref].lockedUsage = {}]
    /\ MtReturn(t, "NONE", [releaseFence |-> -1], mthread[t].hostCalls)
    /\ UNCHANGED <<allocVars, buffers, mImportedBuffers, hostConn, guestMem, hostMem>>

\* a thread that goes on with a handle another thread has freed reads and
\* writes freed memory: it may go on as if the handle were intact, as the
\* steps above have it, or not at all
mtDangling(t) ==
    /\ mthread[t].pc \in {"rdEnter", "flEnter", "rdHost", "flHost", "lkSet", "ulClear"}
    /\ mthread[t].op # "freeBuffer"
    /\ MtSlot(t).state = "freed"
    /\ mthread' = [mthread EXCEPT ![t].pc = "uaf"]
    /\ UNCHANGED <<allocVars, mapperVars, hostConn, guestMem, hostMem>>

MtOps == {"lock", "unlock", "flushLockedBuffer", "rereadLockedBuffer", "freeBuffer"}

MtUsages(op) == IF op = "lock" THEN {{1, 5}} ELSE {{}}

NextThreads ==
    \/ importBuffer(MtProc, RawHandle(1), "ok")
    \/ \E t \in Threads, op \in MtOps, a \in Addrs :
           \E usage \in MtUsages(op) : mtCall(t, op, BufferHandle(a), usage)
    \/ \E t \in Threads : mtValidate(t)
    \/ \E t \in Threads : fbErase(t)
    \/ \E t \in Threads : fbRelease(t)
    \/ \E t \in Threads : mtEnter(t)
    \/ \E t \in Threads, flushOk \in BOOLEAN : mtRead(t, flushOk)
    \/ \E t \in Threads : mtFlush(t)
    \/ \E t \in Threads : mtSet(t)
    \/ \E t \in Threads : mtClear(t)
    \/ \E t \in Threads : mtDangling(t)

SpecThreads == MapperInit /\ [][NextThreads]_vars

(***************************************************************************)
(* C13.  freeBuffer takes the handle out of the imported set in one step.  *)
(***************************************************************************)
\* the threads that took the handle at a out of mImportedBuffers and have
\* yet to unmap, close and delete it
Freeing(a) ==
    {t \in Threads : /\ mthread[t].op = "freeBuffer"
                     /\ mthread[t].pc \notin {"idle", "validate"}
                     /\ mthread[t].h.ref = a}

\* thread t takes a step of its freeBuffer call
FreeStep(t) ==
    /\ mthread[t].op = "freeBuffer"
    /\ mthread'[t] # mthread[t]

\* C13: of the freeBuffer calls on one imported handle, made one after the
\* other or at once by several threads, exactly one succeeds, and it alone
\* unmaps, closes and deletes the handle: the call that finds the handle in
\* the imported set takes it out in the same step and goes on to release
\* it, at no time are two threads releasing the same handle, and every call
\* that does not find the handle returns BAD_BUFFER and changes nothing.
C13_FreeOnce ==
    /\ [](\A a \in Addrs :
            /\ Cardinality(Freeing(a)) <= 1
            /\ Freeing(a) # {} <=> handles[MtProc][a].state = "erased"
            /\ Freeing(a) # {} => a \notin mImportedBuffers[MtProc])
    /\ [][\A t \in Threads :
            /\ FreeStep(t) /\ mthread[t].pc = "validate"
                  => IF mthread[t].h.ref \in mImportedBuffers[MtProc]
                     THEN /\ mthread'[t].pc \in {"flEnter", "fbRelease"}
                          /\ mImportedBuffers'[MtProc] =
                                 mImportedBuffers[MtProc] \ {mthread[t].h.ref}
                     ELSE /\ mthread'[t].pc = "idle"
                          /\ lastOp'.op = "freeBuffer"
                          /\ lastOp'.h = mthread[t].h
                          /\ lastOp'.result = "BAD_BUFFER"
                          /\ lastOp'.hostCalls = <<>>
                          /\ UNCHANGED <<mImportedBuffers, handles, hostMem, guestMem>>
            /\ FreeStep(t) /\ mthread[t].pc = "fbRelease"
                  => /\ handles[MtProc][mthread[t].h.ref].state = "erased"
                     /\ handles'[MtProc][mthread[t].h.ref].state = "freed"
                     /\ lastOp'.op = "freeBuffer"
                     /\ lastOp'.h = mthread[t].h
                     /\ lastOp'.result = "NONE"]_vars

\* one thread is releasing the handle it took out of the imported set, and
\* another thread's freeBuffer on the same handle has returned BAD_BUFFER
C13_Witness ==
    /\ lastOp.op = "freeBuffer"
    /\ lastOp.result = "BAD_BUFFER"
    /\ \E t \in Threads : /\ mthread[t].op = "freeBuffer"
                          /\ mthread[t].pc = "fbRelease"
                          /\ mthread[t].h = lastOp.h

(***************************************************************************)
(* C15.  Host updates and host read-backs of one buffer do not overlap.    *)
(***************************************************************************)
\* thread t is inside the session of flushToHost for buffer b: its host
\* update has begun and has not completed
InHostUpdate(t, b) == mthread[t].pc = "flHost" /\ MtSlot(t).buf = b

\* thread t is inside the session of readFromHost for buffer b
InReadBack(t, b) == mthread[t].pc = "rdHost" /\ MtSlot(t).buf = b

\* C15: within one process, the host update that flushLockedBuffer or unlock
\* issues for a buffer completes before a host read-back that lock or
\* rereadLockedBuffer issues later for the same buffer begins, whatever the
\* other threads do: no thread is reading a buffer back while another
\* thread's update of that buffer is under way, and a thread is inside an
\* update or a read-back only while it holds the session.
C15_UpdateBeforeReadBack ==
    \A t \in Threads, b \in PoolIds :
        /\ InHostUpdate(t, b) \/ InReadBack(t, b) => hostConn = t
        /\ \A u \in Threads : ~(InHostUpdate(t, b) /\ InReadBack(u, b))

\* one thread's flushLockedBuffer or unlock is updating the host's copy of
\* a buffer while another thread's lock or rereadLockedBuffer waits to read
\* that buffer back
C15_Witness ==
    \E t \in Threads, u \in Threads, b \in PoolIds :
        /\ mthread[t].op \in {"flushLockedBuffer", "unlock"}
        /\ InHostUpdate(t, b)
        /\ mthread[u].op \in {"lock", "rereadLockedBuffer"}
        /\ mthread[u].pc = "rdEnter"
        /\ MtSlot(u).buf = b

(***************************************************************************)
(* Two processes sharing buffers: each imports, locks, unlocks and frees,  *)
(* and the app writes through the pointer a write lock gave it.  The       *)
(* shared memory of a buffer is one for all its imports; a fresh color     *)
(* buffer holds what the host put there (-1), not what the shared memory   *)
(* holds (0).                                                              *)
(***************************************************************************)
Patterns == {1, 2}

ShareInit ==
    /\ mBufferIdGenerator = Len(PoolDescriptors)
    /\ session = 0
    /\ thread = [t \in Threads |-> IdleThread]
    /\ call = [t \in Threads |-> NoCall]
    /\ openFds = {}
    /\ mapped = {}
    /\ hostColorBuffers = {b \in PoolIds : BufferPool[b].hostHandle # 0}
    /\ delivered = PoolIds
    /\ allocLog = [b \in PoolIds |-> b]
    /\ buffers = BufferPool
    /\ mImportedBuffers = [p \in Procs |-> {}]
    /\ handles = [p \in Procs |-> [a \in Addrs |-> UnusedSlot]]
    /\ lastOp = NoOp
    /\ mthread = [t \in Threads |-> IdleCall]
    /\ hostConn = 0
    /\ guestMem = [b \in PoolIds |-> 0]
    /\ hostMem = [b \in PoolIds |-> -1]

\* the client stores a pattern through the pointer that lock returned
cpuWrite(p, a, pattern) ==
    /\ handles[p][a].state = "imported"
    /\ handles[p][a].lockedUsage \cap kCPU_WRITE_MASK # {}
    /\ handles[p][a].bufferPtr # 0
    /\ guestMem' = [guestMem EXCEPT ![handles[p][a].buf] = pattern]
    /\ UNCHANGED <<allocVars, mapperVars, mthread, hostConn, hostMem>>

\* the buffers a process has imported
ImportedBy(p) ==
    {handles[p][a].buf : a \in {x \in Addrs : handles[p][x].state = "imported"}}

\* the app has one buffer at a time and writes it; the composer has each
\* buffer once, and reads
NextShare ==
    \/ \E b \in {1, 4} : ImportedBy("app") = {} /\ importBuffer("app", RawHandle(b), "ok")
    \/ \E b \in {1, 4} : b \notin ImportedBy("composer")
                            /\ importBuffer("composer", RawHandle(b), "ok")
    \/ \E p \in Procs, a \in Addrs : freeBuffer(p, BufferHandle(a))
    \/ \E a \in Addrs : lock("app", BufferHandle(a), {5}, WholeRegion, -1, TRUE, TRUE)
    \/ \E a \in Addrs : lock("composer", BufferHandle(a), {1}, WholeRegion, -1, TRUE, TRUE)
    \/ \E p \in Procs, a \in Addrs : unlock(p, BufferHandle(a))
    \/ \E a \in Addrs, pattern \in Patterns : cpuWrite("app", a, pattern)

SpecShare == ShareInit /\ [][NextShare]_vars

(***************************************************************************)
(* C14.  What one process wrote and unlocked, another reads.               *)
(***************************************************************************)
\* no import of buffer b, in any process, holds a CPU write lock
NoWriteLock(b) ==
    \A p \in Procs, a \in Addrs :
        handles[p][a].state = "imported" /\ handles[p][a].buf = b
            => handles[p][a].lockedUsage \cap kCPU_WRITE_MASK = {}

\* this step is a lock that succeeds and grants CPU read access
ReadLock ==
    /\ MapperCall({"lock"})
    /\ OnImported
    /\ lastOp'.result = "NONE"
    /\ handles'[lastOp'.proc][lastOp'.h.ref].lockedUsage \cap kCPU_READ_MASK # {}

\* C14: the bytes a process wrote through a CPU write lock and unlocked are
\* the bytes a later CPU read lock of the same buffer gives, in whichever
\* process the buffer is imported: when the buffer holds a written pattern
\* and every write lock on it has been released, a successful read lock
\* leaves that pattern in the memory it returns, for a buffer with a host
\* color buffer, whose lock reads the color buffer back, and for one
\* without.
C14_WrittenBytesRead ==
    [][ReadLock /\ guestMem[handles[lastOp'.proc][lastOp'.h.ref].buf] \in Patterns
                /\ NoWriteLock(handles[lastOp'.proc][lastOp'.h.ref].buf)
          => guestMem'[handles[lastOp'.proc][lastOp'.h.ref].buf] =
                 guestMem[handles[lastOp'.proc][lastOp'.h.ref].buf]]_vars

\* the composer has just read-locked the buffer with a color buffer, after
\* a read-back, and holds a read lock on the buffer without one; both hold
\* patterns the app wrote and unlocked
C14_Witness ==
    /\ lastOp.op = "lock"
    /\ lastOp.proc = "composer"
    /\ lastOp.result = "NONE"
    /\ lastOp.hostCalls # <<>>
    /\ \A b \in {1, 4} :
          /\ guestMem[b] \in Patterns
          /\ NoWriteLock(b)
          /\ \E a \in Addrs :
                /\ handles["composer"][a].state = "imported"
                /\ handles["composer"][a].buf = b
                /\ handles["composer"][a].lockedUsage \cap kCPU_READ_MASK # {}

(***************************************************************************)
(* Two processes reading and writing the metadata of the buffers they      *)
(* imported.  The app holds one buffer: one with CPU and GPU usage, the    *)
(* YUV one or the one with GPU usage alone.  When it is the first of them, *)
(* the composer imports it too, up to twice, and both set its metadata.    *)
(***************************************************************************)
MetadataTypes == kMetadataTypeDescriptionList \cup {"INVALID"}

MetaPayload(header, value) == [header |-> header, value |-> value]

\* the payloads passed with each type: a value, for DATASPACE another
\* value, an empty payload, a payload of another type, a payload cut short
MetaPayloads(type) ==
    CASE type = "DATASPACE" ->
             {MetaPayload("ok", 1), MetaPayload("ok", 2), MetaPayload("bad", 1),
              MetaPayload("short", 3)}
      [] type = "BLEND_MODE" ->
             {MetaPayload("ok", 1), MetaPayload("none", 0), MetaPayload("short", 3)}
      [] type = "SMPTE2086" ->
             {MetaPayload("ok", 1), MetaPayload("none", 0), MetaPayload("bad", 1),
              MetaPayload("short", 3)}
      [] type = "CTA861_3" ->
             {MetaPayload("ok", 1), MetaPayload("none", 0), MetaPayload("bad", 1),
              MetaPayload("short", 3)}
      [] OTHER -> {MetaPayload("ok", 1)}

\* the types a process passes: the app every type, the composer the
\* settable ones
MetaTypesOf(p) == IF p = "app" THEN MetadataTypes ELSE {t \in MetadataTypes : isSettable(t)}

NextMeta ==
    \/ \E b \in {1, 3, 5} : ImportedBy("app") = {} /\ importBuffer("app", RawHandle(b), "ok")
    \/ ImportedBy("app") = {1} /\ importBuffer("composer", RawHandle(1), "ok")
    \/ \E p \in Procs, a \in Addrs : \E type \in MetaTypesOf(p) :
           getStandardMetadata(p, BufferHandle(a), type)
    \/ \E p \in Procs, a \in Addrs : \E type \in MetaTypesOf(p) :
           \E payload \in MetaPayloads(type) :
               /\ isSettable(type) => handles[p][a].buf = 1
               /\ setStandardMetadata(p, BufferHandle(a), type, payload)

SpecMeta == MapperInit /\ [][NextMeta]_vars

(***************************************************************************)
(* C21.  The settable metadata types.                                      *)
(***************************************************************************)
\* C21: on an imported buffer setStandardMetadata succeeds only for the
\* types the list marks settable, which are DATASPACE, BLEND_MODE,
\* SMPTE2086 and CTA861_3; for every other type it returns UNSUPPORTED and
\* leaves the X record as it was.
C21_SettableTypes ==
    [][MapperCall({"setStandardMetadata"}) /\ OnImported
          => /\ lastOp'.result = "NONE" => isSettable(lastOp'.args.type)
             /\ ~isSettable(lastOp'.args.type)
                   => lastOp'.result = "UNSUPPORTED" /\ UNCHANGED buffers
             /\ isSettable(lastOp'.args.type)
                   <=> lastOp'.args.type \in
                           {"DATASPACE", "BLEND_MODE", "SMPTE2086", "CTA861_3"}]_vars

\* a set of a type that is gettable and not settable has returned
\* UNSUPPORTED on an imported buffer whose DATASPACE, a settable type, was
\* set before
C21_Witness ==
    /\ lastOp.op = "setStandardMetadata"
    /\ lastOp.h.kind = "ptr"
    /\ handles[lastOp.proc][lastOp.h.ref].state = "imported"
    /\ lastOp.args.type = "WIDTH"
    /\ lastOp.result = "UNSUPPORTED"
    /\ buffers[handles[lastOp.proc][lastOp.h.ref].buf].metadata.dataspace = 2

(***************************************************************************)
(* C22.  The gettable metadata types.                                      *)
(***************************************************************************)
\* the buffer behind the handle of the call lastOp' records
BufOfCall == handles[lastOp'.proc][lastOp'.h.ref].buf

\* PLANE_LAYOUTS or CROP asked of a buffer without plane layouts, which is
\* a buffer allocated without CPU usage
Planeless(type, b) ==
    /\ type \in {"PLANE_LAYOUTS", "CROP"}
    /\ buffers[b].metadata.planeLayoutSize = 0

ReturnedStride(b) == AllocationRequest(PoolDescriptors[b]).stride0

\* a get of STRIDE on an imported handle returned s, which is also the
\* stride allocate2 returned for the buffer and the stride of its handle
StrideIs(s) ==
    /\ lastOp'.result = "NONE"
    /\ lastOp'.out = ("STRIDE" :> <<s>>)
    /\ ReturnedStride(BufOfCall) = s
    /\ CbOf(lastOp'.proc, lastOp'.h).stride = s

\* C23 as stated: for every imported buffer getStandardMetadata(STRIDE),
\* the stride allocate2 returned and the handle's stride are equal, and are
\* plane[0].strideInBytes / sampleIncrementInBytes for one-plane formats
\* and 0 for the others.
C23_StrideByFormat ==
    [][MapperCall({"getStandardMetadata"}) /\ OnImported
           /\ lastOp'.args.type = "STRIDE"
          => LET desc == PoolDescriptors[BufOfCall]
             IN  StrideIs(IF PlaneCount(desc) = 1 THEN RowInPixels(desc) ELSE 0)]_vars

\* C23: for every imported buffer getStandardMetadata(STRIDE), the stride
\* allocate2 returned and the handle's stride are equal; they are
\* plane[0].strideInBytes / sampleIncrementInBytes when the format has one
\* plane and the usage a CPU read or write bit, and 0 when the format has
\* more planes or the usage has no CPU bit (no plane layout is recorded).
C23_Stride ==
    [][MapperCall({"getStandardMetadata"}) /\ OnImported
           /\ lastOp'.args.type = "STRIDE"
          => LET desc == PoolDescriptors[BufOfCall]
                 metadata == buffers[BufOfCall].metadata
                 single == needCpuBuffer(desc.usage) /\ PlaneCount(desc) = 1
             IN  /\ StrideIs(IF single THEN RowInPixels(desc) ELSE 0)
                 /\ single => /\ metadata.planeLayoutSize = 1
                              /\ RowInPixels(desc) =
                                     metadata.planeLayout[1].strideInBytes
                                         \div metadata.planeLayout[1].sampleIncrementInBytes
                 /\ ~single => metadata.planeLayoutSize # 1]_vars

\* STRIDE was read from the imported one-plane buffer with CPU usage and is
\* its row in pixels, after the DATASPACE of the buffer was set
C23_Witness ==
    /\ lastOp.op = "getStandardMetadata"
    /\ lastOp.h.kind = "ptr"
    /\ handles[lastOp.proc][lastOp.h.ref].state = "imported"
    /\ handles[lastOp.proc][lastOp.h.ref].buf = 1
    /\ lastOp.args.type = "STRIDE"
    /\ lastOp.result = "NONE"
    /\ lastOp.out = ("STRIDE" :> <<RowInPixels(PoolDescriptors[1])>>)
    /\ RowInPixels(PoolDescriptors[1]) > 0
    /\ buffers[1].metadata.dataspace = 1

(***************************************************************************)
(* C24.  The fields of the X record the mapper never writes.               *)
(***************************************************************************)
\* the fields of an X record that only allocateImpl writes
FixedFields(metadata) ==
    <<metadata.magic, metadata.bufferID, metadata.planeLayout,
      metadata.planeLayoutComponent, metadata.width, metadata.height,
      metadata.glFormat, metadata.glType, metadata.reservedRegionSize,
      metadata.name>>

\* C24: the X record of every allocated buffer carries the magic
\* 0x247439A87E42E932 from the moment allocate2 returned it, and its magic,
\* bufferID, planeLayout, planeLayoutComponent, width, height, glFormat,
\* glType, reservedRegionSize and name stay what allocateImpl wrote,
\* whatever the mapper operations of the processes that imported it.
C24_FixedFields ==
    \A b \in PoolIds :
        /\ buffers[b].metadata.magic = kMagicValue
        /\ kMagicValue = "0x247439A87E42E932"
        /\ FixedFields(buffers[b].metadata) =
               FixedFields(allocateImpl(AllocationRequest(PoolDescriptors[b]), b).metadata)

\* two processes hold the first buffer, its DATASPACE, BLEND_MODE and
\* SMPTE2086 were set, and the composer has just set its CTA861_3
C24_Witness ==
    /\ lastOp.op = "setStandardMetadata"
    /\ lastOp.proc = "composer"
    /\ lastOp.args.type = "CTA861_3"
    /\ lastOp.result = "NONE"
    /\ 1 \in ImportedBy("app")
    /\ buffers[1].metadata.dataspace = 2
    /\ buffers[1].metadata.blendMode = 1
    /\ buffers[1].metadata.has_smpte2086
    /\ buffers[1].metadata.has_cta861_3

(***************************************************************************)
(* C30.  A value set is the value got, in every process, until it is set   *)
(* again.                                                                  *)
(***************************************************************************)
\* what a get of a type finds in the X record of a buffer
Reads(bufs, b, type) == getStandardMetadataImpl(bufs[b], bufs[b].metadata, type)

\* what a get returns after a payload was set: the value of the payload,
\* and no value after an empty payload
ValueSet(type, payload) ==
    CASE type \in {"DATASPACE", "BLEND_MODE"} -> <<payload.value>>
      [] type = "SMPTE2086" ->
             IF payload.header = "none" THEN <<>>
             ELSE <<[ZeroSmpte2086 EXCEPT !.maxLuminance = payload.value]>>
      [] type = "CTA861_3" ->
             IF payload.header = "none" THEN <<>>
             ELSE <<[ZeroCta861_3 EXCEPT !.maxContentLightLevel = payload.value]>>

\* this step is a successful set of the type on an import of the buffer
SetStep(b, type) ==
    /\ MapperCall({"setStandardMetadata"})
    /\ OnImported
    /\ lastOp'.result = "NONE"
    /\ lastOp'.args.type = type
    /\ BufOfCall = b

\* C30: a successful set of DATASPACE, BLEND_MODE, SMPTE2086 or CTA861_3
\* leaves the buffer such that a get of the type finds the value set, and
\* no value after an empty SMPTE2086 or CTA861_3 payload; no other step
\* changes what a get of the type finds; and a get on any import of the
\* buffer, in either process, returns what is found.
C30_SetThenGet ==
    [][/\ MapperCall({"setStandardMetadata"}) /\ OnImported /\ lastOp'.result = "NONE"
             => Reads(buffers', BufOfCall, lastOp'.args.type) =
                    [result |-> "NONE",
                     out |-> ValueSet(lastOp'.args.type, lastOp'.args.payload)]
       /\ buffers' # buffers
             => \A b \in PoolIds : \A type \in {t \in MetadataTypes : isSettable(t)} :
                    ~SetStep(b, type) => Reads(buffers', b, type) = Reads(buffers, b, type)
       /\ MapperCall({"getStandardMetadata"}) /\ OnImported
              /\ isSettable(lastOp'.args.type)
             => /\ lastOp'.result = "NONE"
                /\ lastOp'.out =
                       (lastOp'.args.type :> Reads(buffers, BufOfCall, lastOp'.args.type).out)]_vars

\* the composer got no SMPTE2086 value and the DATASPACE last set from a
\* buffer the app imported too, whose SMPTE2086 was set and then cleared
C30_Witness ==
    /\ lastOp.op = "getStandardMetadata"
    /\ lastOp.proc = "composer"
    /\ lastOp.args.type = "SMPTE2086"
    /\ lastOp.result = "NONE"
    /\ lastOp.out = ("SMPTE2086" :> <<>>)
    /\ 1 \in ImportedBy("app")
    /\ ~buffers[1].metadata.has_smpte2086
    /\ buffers[1].metadata.smpte2086.maxLuminance = 1
    /\ buffers[1].metadata.dataspace = 2

(***************************************************************************)
(* C29.  What importBuffer returns and what it leaves behind.              *)
(***************************************************************************)
\* C29: importBuffer returns BAD_BUFFER for a null or malformed raw handle
\* and NO_RESOURCES when mapping the region fails; when it fails no clone
\* is left and the imported set is as before; when it succeeds the set
\* gains exactly one entry, the handle returned, which was not in it.
C29_ImportBuffer ==
    [][MapperCall({"importBuffer"})
          => LET p == lastOp'.proc
                 h == lastOp'.h
                 others == Procs \ {p}
             IN  /\ lastOp'.result \in {"NONE", "BAD_BUFFER", "NO_RESOURCES"}
                 /\ h.kind \in {"null", "malformed"} => lastOp'.result = "BAD_BUFFER"
                 /\ h.kind = "raw" /\ lastOp'.args.outcome = "memoryMap"
                        => lastOp'.result = "NO_RESOURCES"
                 /\ lastOp'.result = "NO_RESOURCES"
                        => h.kind = "raw" /\ lastOp'.args.outcome = "memoryMap"
                 /\ lastOp'.result # "NONE" => UNCHANGED <<mImportedBuffers, handles>>
                 /\ lastOp'.result = "NONE"
                        => /\ lastOp'.out.handle.kind = "ptr"
                           /\ lastOp'.out.handle.ref \notin mImportedBuffers[p]
                           /\ mImportedBuffers'[p] =
                                  mImportedBuffers[p] \cup {lastOp'.out.handle.ref}
                           /\ handles'[p][lastOp'.out.handle.ref].state = "imported"
                           /\ \A a \in Addrs \ {lastOp'.out.handle.ref} :
                                  handles'[p][a] = handles[p][a]
                           /\ \A q \in others :
                                  /\ mImportedBuffers'[q] = mImportedBuffers[q]
                                  /\ handles'[q] = handles[q]]_vars

\* an import failed to map the region while another import of the process
\* was in place: the set still holds that one alone and no slot holds a
\* second clone
C29_Witness ==
    /\ lastOp.op = "importBuffer"
    /\ lastOp.result = "NO_RESOURCES"
    /\ Cardinality(mImportedBuffers[lastOp.proc]) = 1
    /\ \A a \in Addrs \ mImportedBuffers[lastOp.proc] :
           handles[lastOp.proc][a].state # "imported"

(***************************************************************************)
(* One thread of one process locking, unlocking, flushing, rereading and   *)
(* freeing, step by step, the buffers it imported: one with CPU and GPU    *)
(* usage, the YUV one with CPU write and GPU usage, one with CPU usage     *)
(* alone, which has no host handle.                                        *)
(***************************************************************************)
HostUsages(op) == IF op = "lock" THEN {{1}, {5}, {1, 5}} ELSE {{}}

NextHost ==
    \/ \E b \in {1, 3, 4} : importBuffer(MtProc, RawHandle(b), "ok")
    \/ \E op \in MtOps, a \in Addrs :
           \E usage \in HostUsages(op) : mtCall(1, op, BufferHandle(a), usage)
    \/ mtValidate(1)
    \/ fbErase(1)
    \/ fbRelease(1)
    \/ mtEnter(1)
    \/ \E flushOk \in BOOLEAN : mtRead(1, flushOk)
    \/ mtFlush(1)
    \/ mtSet(1)
    \/ mtClear(1)

SpecHost == MapperInit /\ [][NextHost]_vars

(***************************************************************************)
(* C27.  The host calls of lock and the moment it sets lockedUsage.        *)
(***************************************************************************)
\* the read-back of a buffer: the host calls in order, none without a host
\* handle
ReadBack(cb) ==
    IF cb.hostHandle = 0 THEN <<>>
    ELSE IF isYuvFormat(cb.format)
    THEN <<"rcColorBufferCacheFlush", "rcReadColorBufferYUV">>
    ELSE <<"rcColorBufferCacheFlush", "bindDmaDirectly", "rcReadColorBufferDMA">>

\* the handle of the call the thread is in, and the thread's call returns
\* in this step
CallCb == CbOf(MtProc, mthread[1].h)
CallReturns(op) == mthread[1].op = op /\ mthread[1].pc # "idle" /\ mthread'[1].pc = "idle"

\* C27: a lock of a buffer with a host handle issues
\* rcColorBufferCacheFlush first, then rcReadColorBufferYUV for a YUV
\* format, or bindDmaDirectly and then rcReadColorBufferDMA for another
\* format; lockedUsage is set only in a step after these were issued, by
\* the lock that issued them; a lock that fails issued nothing after the
\* flush and sets nothing; a buffer without host handle is locked without
\* any host call.
C27_LockReadsBack ==
    [][/\ \A a \in Addrs :
              /\ handles[MtProc][a].lockedUsage = {}
              /\ handles'[MtProc][a].lockedUsage # {}
             => /\ mthread[1].op = "lock" /\ mthread[1].pc = "lkSet"
                /\ mthread[1].h = BufferHandle(a)
                /\ mthread[1].hostCalls = ReadBack(CallCb)
       /\ CallReturns("lock") /\ lastOp'.result = "NONE"
             => /\ lastOp'.hostCalls = ReadBack(CallCb)
                /\ handles'[MtProc][mthread[1].h.ref].lockedUsage # {}
       /\ CallReturns("lock") /\ lastOp'.result # "NONE"
             => /\ lastOp'.hostCalls \in {<<>>, <<"rcColorBufferCacheFlush">>}
                /\ lastOp'.hostCalls # <<>> => CallCb.hostHandle # 0
                /\ UNCHANGED handles
       /\ mthread[1].op = "lock" /\ mthread[1].pc \in {"rdEnter", "rdHost"}
             => CallCb.hostHandle # 0 /\ CallCb.lockedUsage = {}]_vars

\* the YUV buffer was locked: its lockedUsage is set and the lock issued
\* the flush and the YUV read
C27_Witness ==
    /\ lastOp.op = "lock"
    /\ lastOp.result = "NONE"
    /\ lastOp.hostCalls = <<"rcColorBufferCacheFlush", "rcReadColorBufferYUV">>
    /\ handles[MtProc][lastOp.h.ref].state = "imported"
    /\ isYuvFormat(buffers[handles[MtProc][lastOp.h.ref].buf].format)
    /\ handles[MtProc][lastOp.h.ref].lockedUsage = {5}

(***************************************************************************)
(* C28.  The host calls of unlock, flushLockedBuffer and freeBuffer.       *)
(***************************************************************************)
\* C28: bindDmaDirectly and then rcUpdateColorBufferDMA are issued exactly
\* by the unlock, flushLockedBuffer and freeBuffer of a handle that has a
\* host handle and holds a CPU write bit, for unlock before lockedUsage is
\* cleared and for freeBuffer before the handle is released; no call on a
\* handle locked for reading alone or without host handle, and no lock or
\* rereadLockedBuffer, issues them.
C28_FlushOnWrite ==
    [][/\ \A op \in MtOps :
              CallReturns(op) /\ validateCb(mImportedBuffers[MtProc] \cup
                                 {a \in Addrs : handles[MtProc][a].state = "erased"},
                                        mthread[1].h)
                 => LET flushes ==
                            /\ op \in {"unlock", "flushLockedBuffer", "freeBuffer"}
                            /\ CallCb.hostHandle # 0
                            /\ CallCb.lockedUsage \cap kCPU_WRITE_MASK # {}
                    IN  /\ flushes => lastOp'.hostCalls =
                                          <<"bindDmaDirectly", "rcUpdateColorBufferDMA">>
                        /\ ~flushes =>
                               \A i \in 1..Len(lastOp'.hostCalls) :
                                   lastOp'.hostCalls[i] \notin
                                       {"rcUpdateColorBufferDMA"}
                                   /\ (lastOp'.hostCalls[i] = "bindDmaDirectly"
                                          => op \in {"lock", "rereadLockedBuffer"})
       /\ CallReturns("unlock") /\ lastOp'.result = "NONE"
             => handles'[MtProc][mthread[1].h.ref].lockedUsage = {}
       /\ mthread[1].pc \in {"flEnter", "flHost"}
             => /\ mthread[1].op \in {"unlock", "flushLockedBuffer", "freeBuffer"}
                /\ CallCb.hostHandle # 0
                /\ CallCb.lockedUsage \cap kCPU_WRITE_MASK # {}
                /\ CallCb.bufferPtr # 0
                /\ handles[MtProc][mthread[1].h.ref].state =
                       IF mthread[1].op = "freeBuffer" THEN "erased" ELSE "imported"
       /\ \A a \in Addrs :
              /\ handles[MtProc][a].lockedUsage \cap kCPU_WRITE_MASK # {}
              /\ handles'[MtProc][a].lockedUsage = {}
              /\ buffers[handles[MtProc][a].buf].hostHandle # 0
             => lastOp'.hostCalls = <<"bindDmaDirectly", "rcUpdateColorBufferDMA">>]_vars

\* a handle with a host handle that was locked for writing was freed, and
\* the freeBuffer flushed it
C28_Witness ==
    /\ lastOp.op = "freeBuffer"
    /\ lastOp.result = "NONE"
    /\ lastOp.hostCalls = <<"bindDmaDirectly", "rcUpdateColorBufferDMA">>
    /\ handles[MtProc][lastOp.h.ref].state = "freed"
    /\ buffers[handles[MtProc][lastOp.h.ref].buf].hostHandle # 0

(***************************************************************************)
(* The processes that hold a host connection: the allocator service with   *)
(* its binder threads, or a client of the mapper with its threads.         *)
(***************************************************************************)
SessionsInit == Init \/ MapperInit

NextSessions ==
    \/ buffers = <<>> /\ NextMT
    \/ buffers # <<>> /\ NextThreads

SpecSessions == SessionsInit /\ [][NextSessions]_vars

(***************************************************************************)
(* C25.  The host is talked to inside a session, the session is released   *)
(* before the operation returns, one operation at a time holds it.         *)
(***************************************************************************)
\* the places of allocate2 and of the mapper's calls inside a session
InAllocSession(th) == th.pc \in {"loop", "alloc", "finish"}
InMapperSession(m) == m.pc \in {"rdHost", "flHost"}

\* every thread inside a session is the one holder of its process's
\* session, and a holder is inside one (or went on with freed memory)
SessionHeld(ses, th, conn, mth) ==
    \A t \in Threads :
        /\ InAllocSession(th[t]) <=> ses = t
        /\ InMapperSession(mth[t]) => conn = t
        /\ conn = t => InMapperSession(mth[t]) \/ mth[t].pc = "uaf"

\* C25: allocate2 creates and rolls back its buffers, and readFromHost and
\* flushToHost issue their host calls, only while their thread holds the
\* session of the process; the thread has released it when the operation
\* returns, with success, with NO_RESOURCES or after a rollback; and at
\* most one thread of a process holds the session.
C25_Sessions ==
    [][/\ SessionHeld(session, thread, hostConn, mthread)
       /\ SessionHeld(session', thread', hostConn', mthread')
       /\ \A t \in Threads :
              /\ thread'[t] # thread[t] /\ hostColorBuffers' # hostColorBuffers
                    => session = t
              /\ thread[t].pc # "idle" /\ thread'[t].pc = "idle"
                    => /\ session = t /\ session' = 0
                       /\ call'[t].status \in {"OK", "NO_RESOURCES"}
              /\ Len(mthread'[t].hostCalls) > Len(mthread[t].hostCalls)
                    => hostConn = t /\ hostConn' = 0
              /\ mthread[t].pc # "idle" /\ mthread'[t].pc = "idle"
                    => /\ hostConn' # t
                       /\ Len(lastOp'.hostCalls) > Len(mthread[t].hostCalls)
                              => hostConn = t
       /\ (guestMem' # guestMem \/ hostMem' # hostMem)
             => hostConn # 0 /\ hostConn' = 0]_vars

\* a batch failed at its second buffer and was rolled back: the thread has
\* returned NO_RESOURCES and left the session, which the other thread, that
\* was waiting for it, can now enter
C25_Witness ==
    /\ call[1].status = "NO_RESOURCES"
    /\ call[1].allocated # {}
    /\ thread[1].pc = "idle"
    /\ thread[2].pc = "session"
    /\ session = 0

(***************************************************************************)
(* The life of a buffer: the allocator serves calls; a client receives the *)
(* result, the processes import the handles and free them (the app any of  *)
(* them, the composer the first, one at a time), the client closes the     *)
(* handles of the result; the host releases the color buffers no refcount  *)
(* fd is open for.                                                         *)
(***************************************************************************)
LifeDescriptors == {Descriptor(2, 1, "RGBA_8888", 1, {1, 5, 8}, 0, 0)}

\* the client takes the handles of the result of a call
clientReceives(t) ==
    /\ call[t].op = "allocate2"
    /\ call[t].status = "OK"
    /\ LET cbs == call[t].buffers
           got == {cbs[k].metadata.bufferID : k \in 1..Len(cbs)}
       IN  /\ got \cap DOMAIN buffers = {}
           /\ buffers' = [b \in DOMAIN buffers \cup got |->
                             IF b \in got
                             THEN CHOOSE c \in {cbs[k] : k \in 1..Len(cbs)} :
                                      c.metadata.bufferID = b
                             ELSE buffers[b]]
    /\ UNCHANGED <<allocVars, mImportedBuffers, handles, lastOp, memVars>>

\* the client closes and deletes a handle of a result
clientCloses(b) ==
    /\ b \in delivered
    /\ b \in DOMAIN buffers
    /\ delivered' = delivered \ {b}
    /\ UNCHANGED <<mBufferIdGenerator, session, thread, call, openFds, mapped,
                   hostColorBuffers, allocLog>>
    /\ UNCHANGED <<mapperVars, memVars>>

\* the host releases the color buffers that have no refcount fd left
hostReleases ==
    /\ hostColorBuffers' = LiveColorBuffers(hostColorBuffers, openFds, delivered)
    /\ hostColorBuffers' # hostColorBuffers
    /\ UNCHANGED <<mBufferIdGenerator, session, thread, call, openFds, mapped,
                   delivered, allocLog>>
    /\ UNCHANGED <<mapperVars, memVars>>

NextLife ==
    \/ \E desc \in LifeDescriptors, count \in 1..MaxCount : a2Enter(1, desc, count)
    \/ a2Session(1)
    \/ a2LoadId(1)
    \/ \E outcome \in {"ok", "rcCreateColorBufferDMA"} : a2Allocate(1, outcome)
    \/ a2Finish(1)
    \/ clientReceives(1)
    \/ \E p \in Procs, b \in 1..MaxBufferId :
           /\ b \in DOMAIN buffers
           /\ b \in delivered
           /\ ImportedBy(p) = {}
           /\ p = "composer" => b = 1
           /\ importBuffer(p, RawHandle(b), "ok")
    \/ \E p \in Procs, a \in Addrs :
           a \in mImportedBuffers[p] /\ freeBuffer(p, BufferHandle(a))
    \/ \E b \in 1..MaxBufferId : clientCloses(b)
    \/ hostReleases

SpecLife == Init /\ [][NextLife]_vars

(***************************************************************************)
(* C26.  A color buffer lives as long as a refcount fd for it is open.     *)
(***************************************************************************)
\* a refcount fd of the color buffer is open: the allocator's own, the copy
\* in a result, or the copy in an imported handle
RefcountHeld(h, fds, deliv, hnd) ==
    \/ RefcountFdOf(h) \in fds
    \/ h \in deliv
    \/ \E p \in Procs, a \in Addrs :
           hnd[p][a].state \in {"imported", "erased"} /\ hnd[p][a].buf = h

\* C26: a color buffer allocate2 created is alive at the host while a
\* refcount fd for it is open in any process: when allocate2 closes its own
\* fds the result holds copies of them, so that the color buffer of every
\* handle returned is alive; a handle a client holds or a process imported
\* keeps the color buffer alive; and a color buffer is released only in a
\* step after which no refcount fd is left.
C26_ColorBufferLife ==
    [][\A h \in 1..MaxBufferId :
           /\ RefcountHeld(h, openFds, delivered, handles)
                  /\ RefcountHeld(h, openFds', delivered', handles')
                  /\ h \in hostColorBuffers
                 => h \in hostColorBuffers'
           /\ h \in hostColorBuffers /\ h \notin hostColorBuffers'
                 => ~RefcountHeld(h, openFds', delivered', handles')
           /\ \A p \in Procs, a \in Addrs :
                  /\ handles'[p][a].state = "imported"
                  /\ handles'[p][a].buf = h
                  /\ buffers'[h].hostHandle # 0
                 => h \in hostColorBuffers'
           /\ thread[1].pc = "finish" /\ call'[1].status = "OK"
                 => \A k \in 1..Len(call'[1].buffers) :
                        LET cb == call'[1].buffers[k]
                        IN  /\ cb.hostHandle # 0
                            /\ cb.hostHandle \in hostColorBuffers'
                            /\ cb.hostHandleRefcountFd \notin openFds'
                            /\ RefcountHeld(cb.hostHandle, {}, delivered', handles')]_vars

\* the allocator and the client that received the buffer have closed their
\* fds, the app has freed its import, and the color buffer is alive for
\* the import of the composer
C26_Witness ==
    \E h \in 1..MaxBufferId, a \in Addrs :
        /\ h \in hostColorBuffers
        /\ RefcountFdOf(h) \notin openFds
        /\ h \notin delivered
        /\ handles["composer"][a].state = "imported"
        /\ handles["composer"][a].buf = h
        /\ \E aa \in Addrs : handles["app"][aa].state = "freed" /\ handles["app"][aa].buf = h

(***************************************************************************)
(* C31.  A set that fails with BAD_VALUE changes nothing.                  *)
(***************************************************************************)
\* the fields of an X record that setStandardMetadata writes
SetFields(metadata) ==
    <<metadata.dataspace, metadata.blendMode, metadata.smpte2086, metadata.cta861_3,
      metadata.has_smpte2086, metadata.has_cta861_3>>

GpuOrComposerBits ==
    GPU_TEXTURE \cup GPU_RENDER_TARGET \cup COMPOSER_OVERLAY
        \cup COMPOSER_CLIENT_TARGET \cup GPU_DATA_BUFFER

\* C32: every buffer a successful allocate2 returns has hostHandle # 0 and
\* a refcount fd, open in the result and keeping the color buffer alive on
\* the host, exactly when its usage has GPU_TEXTURE, GPU_RENDER_TARGET,
\* COMPOSER_OVERLAY, COMPOSER_CLIENT_TARGET or GPU_DATA_BUFFER; any other
\* returned buffer has hostHandle = 0, hostHandleRefcountFd = -1 and
\* glFormat = glType = -1 in its X record.
C32_HostSideByUsage ==
    \A t \in Threads :
        Succeeded(t) =>
            \A k \in 1..Len(call[t].buffers) :
                LET cb == call[t].buffers[k]
                IN  /\ cb.usage = call[t].desc.usage
                    /\ IF cb.usage \cap GpuOrComposerBits # {}
                       THEN /\ cb.hostHandle # 0
                            /\ cb.hostHandleRefcountFd >= 0
                            /\ cb.metadata.bufferID \in delivered
                            /\ cb.hostHandle \in hostColorBuffers
                       ELSE /\ cb.hostHandle = 0
                            /\ cb.hostHandleRefcountFd = -1
                            /\ cb.metadata.glFormat = NoGl
                            /\ cb.metadata.glType = NoGl

\* a buffer whose only GPU bit is GPU_DATA_BUFFER was returned with a host
\* handle
C32_Witness ==
    /\ Succeeded(1)
    /\ Len(call[1].buffers) = 1
    /\ call[1].desc.usage = {1, 24}
    /\ call[1].buffers[1].hostHandle # 0
    /\ call[1].buffers[1].hostHandleRefcountFd >= 0

\* a buffer with CPU usage alone was returned without one
C32_WitnessCpuOnly ==
    /\ Succeeded(1)
    /\ Len(call[1].buffers) = 1
    /\ call[1].desc.usage = {1, 5}
    /\ call[1].buffers[1].hostHandle = 0
    /\ call[1].buffers[1].metadata.glFormat = NoGl

(***************************************************************************)
(* C33.  The reserved region.  Buffers allocated with no reserved region,  *)
(* with a small one, and with reservedSize at and above the range of the   *)
(* uint32_t reservedRegionSize of the X record (allocate2 accepts every    *)
(* reservedSize >= 0 and carries it in a size_t), imported, asked for      *)
(* their reserved region and freed by one process.                         *)
(***************************************************************************)
ReservedSizes == <<0, 8, UInt32Range, UInt32Range + 8, 16>>

ReservedDescriptors ==
    [b \in PoolIds |->
        Descriptor(MaxWidth, MaxHeight, "RGB_888", 1, {1}, ReservedSizes[b], 0)]

ReservedPool ==
    [b \in PoolIds |-> allocateImpl(AllocationRequest(ReservedDescriptors[b]), b)]

ReservedInit ==
    /\ mBufferIdGenerator = Len(ReservedSizes)
    /\ session = 0
    /\ thread = [t \in Threads |-> IdleThread]
    /\ call = [t \in Threads |-> NoCall]
    /\ openFds = {}
    /\ mapped = {}
    /\ hostColorBuffers = {}
    /\ delivered = PoolIds
    /\ allocLog = [b \in PoolIds |-> b]
    /\ buffers = ReservedPool
    /\ mImportedBuffers = [p \in Procs |-> {}]
    /\ handles = [p \in Procs |-> [a \in Addrs |-> UnusedSlot]]
    /\ lastOp = NoOp
    /\ mthread = [t \in Threads |-> IdleCall]
    /\ hostConn = 0
    /\ guestMem = [b \in PoolIds |-> 0]
    /\ hostMem = [b \in PoolIds |-> 0]

NextReserved ==
    \/ \E b \in PoolIds : importBuffer("app", RawHandle(b), "ok")
    \/ \E a \in Addrs : getReservedRegion("app", BufferHandle(a))
    \/ \E a \in Addrs : freeBuffer("app", BufferHandle(a))

SpecReserved == ReservedInit /\ [][NextReserved]_vars

\* what getReservedRegion is to return for the buffer behind the imported
\* handle passed, allocated with reservedSize R
ReservedRegionIs(R) ==
    LET slot == handles[lastOp'.proc][lastOp'.h.ref]
        cb == buffers[slot.buf]
    IN  /\ lastOp'.result = "NONE"
        /\ lastOp'.out.size = R
        /\ IF R > 0
           THEN /\ lastOp'.out.region =
                       slot.bufferPtr + cb.externalMetadataOffset + kCbExternalMetadataSize
                /\ cb.externalMetadataOffset + kCbExternalMetadataSize + R <= cb.mmapedSize
           ELSE lastOp'.out.region = 0

\* C33: for every imported buffer allocated with reservedSize R >= 0,
\* getReservedRegion returns size R and, when R > 0, the address right
\* after the X record with externalMetadataOffset + sizeof(X) + R within
\* mmapedSize; when R = 0 it returns a null pointer and size 0.
C33_ReservedRegion ==
    [][MapperCall({"getReservedRegion"}) /\ OnImported
          => LET desc == ReservedDescriptors[PassedSlot.buf]
             IN  allocate2Check(desc, 1) = "OK" => ReservedRegionIs(desc.reservedSize)]_vars

\* the same for every reservedSize that fits the uint32_t of the X record
C33_ReservedRegionInRange ==
    [][MapperCall({"getReservedRegion"}) /\ OnImported
          => LET desc == ReservedDescriptors[PassedSlot.buf]
             IN  allocate2Check(desc, 1) = "OK" /\ desc.reservedSize < UInt32Range
                     => ReservedRegionIs(desc.reservedSize)]_vars

\* the reserved region of a buffer allocated with reservedSize 2^32 + 8 was
\* returned with size 8
C33_Truncated ==
    /\ lastOp.op = "getReservedRegion"
    /\ lastOp.h.kind = "ptr"
    /\ handles[lastOp.proc][lastOp.h.ref].state = "imported"
    /\ ReservedDescriptors[handles[lastOp.proc][lastOp.h.ref].buf].reservedSize
           = UInt32Range + 8
    /\ lastOp.result = "NONE"
    /\ lastOp.out.size = 8

(***************************************************************************)
(* dumpAllBuffers, step by step: it takes mImportedBuffersMtx, calls       *)
(* beginDumpCallback and dumpBufferImpl for one handle of mImportedBuffers *)
(* after the other, in the order of the unordered_set, and returns.  The   *)
(* callbacks made are kept in the order made.                              *)
(***************************************************************************)
\* the handles dumpAllBuffers has called beginDumpCallback for
BeginDumped(calls) ==
    {calls[k][2] : k \in {j \in 1..Len(calls) : calls[j][1] = "beginDumpCallback"}}

\* a thread calls dumpAllBuffers
daCall(t) ==
    /\ mthread[t].pc = "idle"
    /\ mthread' = [mthread EXCEPT ![t] =
           [IdleCall EXCEPT !.pc = "daEnter", !.op = "dumpAllBuffers"]]
    /\ UNCHANGED <<allocVars, mapperVars, hostConn, guestMem, hostMem>>

\* it takes the mutex
daStart(t) ==
    /\ mthread[t].pc = "daEnter"
    /\ lock_guard(mImportedBuffersMtx)
    /\ mthread' = [mthread EXCEPT ![t].pc = "dump"]
    /\ UNCHANGED <<allocVars, mapperVars, hostConn, guestMem, hostMem>>

\* one round of the loop; dumpBufferImpl reads the handle and its X record
daDump(t) ==
    /\ mthread[t].pc = "dump"
    /\ \E cb \in mImportedBuffers[MtProc] \ BeginDumped(mthread[t].hostCalls) :
           IF handles[MtProc][cb].state = "freed"
           THEN mthread' = [mthread EXCEPT ![t].pc = "uaf"]
           ELSE mthread' = [mthread EXCEPT ![t].hostCalls =
                    @ \o <<<<"beginDumpCallback", cb>>,
                           <<"dumpBufferCallback", cb,
                             {m \in kMetadataTypeDescriptionList :
                                 getStandardMetadataImpl(
                                     CbOf(MtProc, BufferHandle(cb)),
                                     CbOf(MtProc, BufferHandle(cb)).metadata,
                                     m).result = "NONE"}>>>>]
    /\ UNCHANGED <<allocVars, mapperVars, hostConn, guestMem, hostMem>>

\* the loop is over: the mutex is released and the call returns
daReturn(t) ==
    /\ mthread[t].pc = "dump"
    /\ mImportedBuffers[MtProc] \subseteq BeginDumped(mthread[t].hostCalls)
    /\ MtReturn(t, "NONE", NoOut, mthread[t].hostCalls)
    /\ UNCHANGED <<allocVars, buffers, mImportedBuffers, handles, hostConn, guestMem,
                   hostMem>>

\* threads importing, locking, unlocking, freeing and dumping all buffers;
\* the buffers have no host side
DumpOps == {"lock", "unlock", "freeBuffer"}

NextDump ==
    \/ \E b \in {2, 4} : importBuffer(MtProc, RawHandle(b), "ok")
    \/ \E t \in Threads, op \in DumpOps, a \in Addrs :
           \E usage \in MtUsages(op) : mtCall(t, op, BufferHandle(a), usage)
    \/ \E t \in Threads : mtValidate(t)
    \/ \E t \in Threads : fbErase(t)
    \/ \E t \in Threads : fbRelease(t)
    \/ \E t \in Threads : mtSet(t)
    \/ \E t \in Threads : mtClear(t)
    \/ \E t \in Threads : mtDangling(t)
    \/ \E t \in Threads : daCall(t)
    \/ \E t \in Threads : daStart(t)
    \/ \E t \in Threads : daDump(t)
    \/ \E t \in Threads : daReturn(t)

SpecDump == MapperInit /\ [][NextDump]_vars

(***************************************************************************)
(* C34.  dumpAllBuffers holds the mutex of the imported set throughout.    *)
(***************************************************************************)
Dumping ==
    {t \in Threads : mthread[t].op = "dumpAllBuffers" /\ mthread[t].pc \notin {"idle", "daEnter"}}

\* C34: from its first statement to its return dumpAllBuffers holds the
\* mutex of the imported set: while a thread is inside it no importBuffer
\* and no freeBuffer of another thread changes the imported set, and no
\* imported handle is unmapped or deleted; it never reads a freed handle;
\* and when it returns it has called beginDumpCallback exactly once for
\* each handle that was imported when it started, and for no other.
C34_DumpAllBuffers ==
    /\ [](\A t \in Dumping : mthread[t].pc = "dump" /\ mImportedBuffersMtx = {t})
    /\ [][Dumping # {}
            => /\ mImportedBuffers' = mImportedBuffers
               /\ \A a \in mImportedBuffers[MtProc] :
                      /\ handles'[MtProc][a].state = "imported"
                      /\ handles'[MtProc][a].bufferPtr = handles[MtProc][a].bufferPtr
                      /\ handles'[MtProc][a].buf = handles[MtProc][a].buf]_vars
    /\ [][\A t \in Dumping : mthread'[t].pc = "idle"
            => LET calls == lastOp'.hostCalls
                   begins == {k \in 1..Len(calls) : calls[k][1] = "beginDumpCallback"}
               IN  /\ lastOp'.op = "dumpAllBuffers"
                   /\ lastOp'.result = "NONE"
                   /\ {calls[k][2] : k \in begins} = mImportedBuffers[MtProc]
                   /\ Cardinality(begins) = Cardinality(mImportedBuffers[MtProc])]_vars

\* dumpAllBuffers returned after dumping two imported handles while
\* another thread's freeBuffer of one of them waits for the mutex
C34_Witness ==
    /\ lastOp.op = "dumpAllBuffers"
    /\ BeginDumped(lastOp.hostCalls) = Addrs
    /\ \E t \in Threads : /\ mthread[t].op = "freeBuffer"
                          /\ mthread[t].pc = "validate"

(***************************************************************************)
(* C35.  One outstanding lock per handle.                                  *)
(***************************************************************************)
\* thread t returns from lock with success in this step
LockSucceeds(t) ==
    /\ mthread[t].op = "lock"
    /\ mthread[t].pc = "lkSet"
    /\ mthread'[t].pc = "idle"
    /\ MtSlot(t).state = "imported"

\* thread t makes the checks of its lock call in this step
LockIsChecked(t) ==
    /\ mthread[t].op = "lock"
    /\ mthread[t].pc = "validate"
    /\ mthread'[t] # mthread[t]
    /\ validateCb(mImportedBuffers[MtProc], mthread[t].h)

\* C35 as stated: of two lock calls on one imported, unlocked handle with
\* no unlock in between, made one after the other or at once by two
\* threads, at most one returns success: a lock returns success only on a
\* handle with no lock outstanding.
C35_OneLockPerHandle ==
    [][\A t \in Threads : LockSucceeds(t) => MtSlot(t).lockedUsage = {}]_vars

\* C35 as the code has it: a lock call whose check of lockedUsage runs
\* after another lock call on the handle has returned success, with no
\* unlock in between, returns BAD_BUFFER and leaves the handle as it was;
\* a lock call returns success only if the handle had no lock outstanding
\* when the call checked it.  Between that check and the write of
\* lockedUsage at the end of the call no mutex is held, so lock calls whose
\* checks both run before either write may both return success.
C35_OneLockWhenOrdered ==
    [][\A t \in Threads :
          /\ LockIsChecked(t) /\ MtSlot(t).lockedUsage # {}
                => /\ mthread'[t].pc = "idle"
                   /\ lastOp'.op = "lock"
                   /\ lastOp'.h = mthread[t].h
                   /\ lastOp'.result = "BAD_BUFFER"
                   /\ handles' = handles
          /\ LockIsChecked(t) /\ mthread'[t].pc # "idle"
                => MtSlot(t).lockedUsage = {}]_vars

\* two threads are past the checks of their lock calls on the same
\* imported, unlocked handle, one about to set lockedUsage and the other
\* having set it and returned
C35_Witness ==
    \E t \in Threads :
        /\ mthread[t].op = "lock"
        /\ mthread[t].pc = "lkSet"
        /\ MtSlot(t).state = "imported"
        /\ MtSlot(t).lockedUsage # {}
        /\ lastOp.op = "lock"
        /\ lastOp.h = mthread[t].h
        /\ lastOp.result = "NONE"

(***************************************************************************)
(* C36.  No operation goes on with a handle that freeBuffer has released.  *)
(***************************************************************************)
\* thread t is inside lock, unlock, flushLockedBuffer or rereadLockedBuffer
\* past validateCb, with reads or writes of the handle still to come
PastValidate(t) ==
    /\ mthread[t].op \in {"lock", "unlock", "flushLockedBuffer", "rereadLockedBuffer"}
    /\ mthread[t].pc \notin {"idle", "validate"}

\* C36: under every interleaving of freeBuffer with another thread's
\* operation on the same handle, the other operation completes before
\* freeBuffer unmaps and deletes the handle or returns BAD_BUFFER from
\* validateCb: no thread is past validateCb, with the handle's fields and
\* memory still to read or write, on a handle that is unmapped and deleted.
C36_NoUseAfterFree ==
    \A t \in Threads : PastValidate(t) => MtSlot(t).state # "freed"

\* a lock that validateCb let through is about to read the buffer back and
\* write lockedUsage on a handle another thread's freeBuffer has unmapped
\* and deleted since
C36_UseAfterFree ==
    /\ lastOp.op = "freeBuffer"
    /\ lastOp.result = "NONE"
    /\ \E t \in Threads :
           /\ mthread[t].op = "lock"
           /\ mthread[t].pc = "rdEnter"
           /\ mthread[t].h = lastOp.h
           /\ MtSlot(t).state = "freed"

(***************************************************************************)
(* C37.  A read-back through one import and the unflushed bytes of         *)
(* another.                                                                *)
(***************************************************************************)
\* an import of buffer b other than the one at a in process p holds a CPU
\* write lock, and the shared memory holds a pattern written through it
\* that the host's color buffer does not hold yet
UnflushedWrite(p, a, b) ==
    /\ guestMem[b] \in Patterns
    /\ guestMem[b] # hostMem[b]
    /\ \E q \in Procs, x \in Addrs :
           /\ <<q, x>> # <<p, a>>
           /\ handles[q][x].state = "imported"
           /\ handles[q][x].buf = b
           /\ handles[q][x].lockedUsage \cap kCPU_WRITE_MASK # {}

\* C37: a lock or rereadLockedBuffer through one import of a buffer with a
\* color buffer leaves unchanged the bytes that the holder of a CPU write
\* lock on another import of the buffer, in the same or another process,
\* has written and not yet flushed or unlocked.
C37_UnflushedBytesKept ==
    [][MapperCall({"lock", "rereadLockedBuffer"}) /\ OnImported
          /\ buffers[PassedSlot.buf].hostHandle # 0
          /\ UnflushedWrite(lastOp'.proc, lastOp'.h.ref, PassedSlot.buf)
          => guestMem'[PassedSlot.buf] = guestMem[PassedSlot.buf]]_vars

\* the composer's lock has read the color buffer back over the shared
\* memory while the app holds its CPU write lock on the same buffer
C37_Overwritten ==
    /\ lastOp.op = "lock"
    /\ lastOp.proc = "composer"
    /\ lastOp.result = "NONE"
    /\ lastOp.hostCalls # <<>>
    /\ lastOp.h.kind = "ptr"
    /\ handles["composer"][lastOp.h.ref].state = "imported"
    /\ guestMem[handles["composer"][lastOp.h.ref].buf] \notin Patterns
    /\ \E x \in Addrs :
           /\ handles["app"][x].state = "imported"
           /\ handles["app"][x].buf = handles["composer"][lastOp.h.ref].buf
           /\ handles["app"][x].lockedUsage \cap kCPU_WRITE_MASK # {}

(***************************************************************************)
(* C38.  The buffer size is the size of the image.                         *)
(***************************************************************************)
\* the bytes of plane k of the image of a descriptor, in unbounded
\* arithmetic: the rows of the plane, each of the plane's width times the
\* sample size rounded up to the alignment
PlaneBytes(desc, k) ==
    LET planes == FormatTable(desc.format).planes
    IN  IF k > Len(planes) THEN 0
        ELSE LET A == planes[k][1]
                 S == planes[k][2]
                 shift == planes[k][3]
                 w == desc.width \div (2 ^ shift)
                 h == desc.height \div (2 ^ shift)
             IN  (((w * S + A - 1) \div A) * A) * h

ImageBytes(desc) == PlaneBytes(desc, 1) + PlaneBytes(desc, 2) + PlaneBytes(desc, 3)

\* the handle allocateImpl makes for the request has room for an image of
\* n bytes before its X record and its reserved region
HoldsImage(cb, desc, n) ==
    /\ cb.bufferSize = n
    /\ cb.externalMetadataOffset >= n
    /\ cb.mmapedSize >= align(n, 16) + kCbExternalMetadataSize + desc.reservedSize

\* C38: for every descriptor allocate2 accepts with CPU usage, of any
\* width and height, bufferSize is the sum over the planes of
\* strideInBytes * height in unbounded arithmetic, the mapped region has at
\* least that size rounded up to 16, plus sizeof(X), plus reservedSize
\* bytes, and the X record lies behind the image.
C38_BufferHoldsImage ==
    \A t \in Threads :
        Requested(t) /\ needCpuBuffer(call[t].desc.usage) =>
            HoldsImage(allocateImpl(call[t].buffers[1], 1), call[t].desc,
                       ImageBytes(call[t].desc))

\* the same for the descriptors whose image has less than 2^32 bytes
C38_BufferHoldsSmallImage ==
    \A t \in Threads :
        Requested(t) /\ needCpuBuffer(call[t].desc.usage)
            /\ ImageBytes(call[t].desc) < UInt32Range =>
                HoldsImage(allocateImpl(call[t].buffers[1], 1), call[t].desc,
                           ImageBytes(call[t].desc))

\* the request for an RGBA_8888 buffer of 65536 x 65536 (here 4096 x 4096)
\* with CPU usage was built with an image of 0 bytes
C38_Wrapped ==
    /\ Requested(1)
    /\ call[1].desc.format = "RGBA_8888"
    /\ call[1].desc.width = 4096
    /\ call[1].desc.height = 4096
    /\ needCpuBuffer(call[1].desc.usage)
    /\ allocateImpl(call[1].buffers[1], 1).bufferSize = 0
    /\ allocateImpl(call[1].buffers[1], 1).externalMetadataOffset = 0

(***************************************************************************)
(* C39.  The chroma planes of a subsampled image.                          *)
(***************************************************************************)
\* the rows plane holds, and the samples in each of its rows
PlaneRows(plane) ==
    IF plane.strideInBytes = 0 THEN 0
    ELSE plane.totalSizeInBytes \div plane.strideInBytes

PlaneSamples(plane) == plane.strideInBytes \div plane.sampleIncrementInBytes

\* plane has a chroma sample for every luma sample of a width x height
\* image
CoversLuma(plane, width, height) ==
    /\ plane.strideInBytes > 0
    /\ plane.totalSizeInBytes > 0
    /\ PlaneSamples(plane) * (2 ^ plane.horizontalSubsamplingShift) >= width
    /\ PlaneRows(plane) * (2 ^ plane.verticalSubsamplingShift) >= height

\* C39: for every descriptor of a subsampled YUV format that allocate2
\* accepts with CPU usage, odd widths and heights and width 1 or height 1
\* included, each chroma plane recorded in X has a stride and a total size
\* above zero and, scaled by its subsampling shifts, as many samples per
\* row as the image is wide and as many rows as the image is high.
C39_ChromaCoversLuma ==
    \A t \in Threads :
        Requested(t) /\ needCpuBuffer(call[t].desc.usage)
            /\ PlaneCount(call[t].desc) > 1
            /\ ImageBytes(call[t].desc) < UInt32Range =>
                \A k \in 2..PlaneCount(call[t].desc) :
                    CoversLuma(call[t].buffers[1].plane[k], call[t].desc.width,
                               call[t].desc.height)

\* the same for even widths and heights
C39_ChromaCoversEvenLuma ==
    \A t \in Threads :
        Requested(t) /\ needCpuBuffer(call[t].desc.usage)
            /\ PlaneCount(call[t].desc) > 1
            /\ ImageBytes(call[t].desc) < UInt32Range
            /\ call[t].desc.width % 2 = 0 /\ call[t].desc.height % 2 = 0 =>
                \A k \in 2..PlaneCount(call[t].desc) :
                    CoversLuma(call[t].buffers[1].plane[k], call[t].desc.width,
                               call[t].desc.height)

\* the request for a YV12 buffer of 1 x 1 with CPU usage was built with
\* chroma planes of stride 0 and size 0
C39_EmptyChroma ==
    /\ Requested(1)
    /\ call[1].desc.format = "YV12"
    /\ call[1].desc.width = 1
    /\ call[1].desc.height = 1
    /\ needCpuBuffer(call[1].desc.usage)
    /\ call[1].buffers[1].planeSize = 3
    /\ call[1].buffers[1].plane[2].strideInBytes = 0
    /\ call[1].buffers[1].plane[3].totalSizeInBytes = 0

(***************************************************************************)
(* The threads of one process calling every kind of mapper operation on    *)
(* one buffer with a color buffer, under fair scheduling: a thread that    *)
(* can go on does, a thread waiting for the mutex or for the session of    *)
(* the connection gets it when it is free time and again, and the host     *)
(* answers every call.  Clients need not call at all.  The buffer is       *)
(* imported once, at the first address.                                    *)
(***************************************************************************)
LiveOps ==
    {"lock", "unlock", "flushLockedBuffer", "rereadLockedBuffer", "getStandardMetadata",
     "freeBuffer"}

NextLive ==
    \/ /\ handles[MtProc][1].state = "unused"
       /\ importBuffer(MtProc, RawHandle(1), "ok")
       /\ handles'[MtProc][1].state = "imported"
    \/ \E t \in Threads, op \in LiveOps :
           \E usage \in MtUsages(op) : mtCall(t, op, BufferHandle(1), usage)
    \/ \E t \in Threads : mtValidate(t)
    \/ \E t \in Threads : fbErase(t)
    \/ \E t \in Threads : fbRelease(t)
    \/ \E t \in Threads : mtEnter(t)
    \/ \E t \in Threads, flushOk \in BOOLEAN : mtRead(t, flushOk)
    \/ \E t \in Threads : mtFlush(t)
    \/ \E t \in Threads : mtSet(t)
    \/ \E t \in Threads : mtClear(t)
    \/ \E t \in Threads : mtDangling(t)
    \/ \E t \in Threads : daCall(t)
    \/ \E t \in Threads : daStart(t)
    \/ \E t \in Threads : daDump(t)
    \/ \E t \in Threads : daReturn(t)

\* the steps in which thread t takes the mutex or enters the session
Acquires(t) == mtValidate(t) \/ fbErase(t) \/ mtEnter(t) \/ daStart(t)

\* the other steps of a call of thread t
Proceeds(t) ==
    \/ fbRelease(t)
    \/ \E flushOk \in BOOLEAN : mtRead(t, flushOk)
    \/ mtFlush(t)
    \/ mtSet(t)
    \/ mtClear(t)
    \/ daDump(t)
    \/ daReturn(t)

SpecLive ==
    /\ MapperInit
    /\ [][NextLive]_vars
    /\ \A t \in Threads : SF_vars(Acquires(t)) /\ WF_vars(Proceeds(t))

(***************************************************************************)
(* C40.  The mutex and the session are never held together, and calls      *)
(* return.                                                                 *)
(***************************************************************************)
\* some call has gone on with a handle freed under it: what the process
\* does from there on is undefined
UsedAfterFree == \E u \in Threads : mthread[u].pc = "uaf"

C40_WitnessMutex ==
    \E t \in Threads, u \in Threads :
        /\ mthread[t].op = "freeBuffer"
        /\ mthread[t].pc = "validate"
        /\ mthread[u].pc = "dump"
        /\ ~UsedAfterFree
=============================================================================
